---------------------------- MODULE Spec2Model ----------------------------
(***************************************************************************)
(* A model of the Riichi Mahjong engine of jerdgerd/riichibot:             *)
(* tiles/tile.py, tiles/wall.py, game/hand.py, game/player.py and          *)
(* game/engine.py.                                                         *)
(*                                                                         *)
(* A Tile is a frozen dataclass compared on all of its fields, is_red      *)
(* included.  It is modelled as the number  100*is_red + 10*suit + v,      *)
(* where v is the rank of a suited tile and the 1-based position of a      *)
(* wind or dragon in its enum, so that equality of numbers is equality of  *)
(* tiles.  Suits are numbered in the order of their string values          *)
(* ("dragon" < "man" < "pin" < "sou" < "wind"), the order the sort key     *)
(* (suit.value, value or 0) compares them in.                              *)
(***************************************************************************)
EXTENDS Integers, Sequences, FiniteSets, TLC

(***************************************************************************)
(* tiles/tile.py                                                           *)
(***************************************************************************)
DRAGON == 0
MANZU == 1
PINZU == 2
SOUZU == 3
WIND == 4

EAST == 1
SOUTH == 2
WEST == 3
NORTH == 4

GREEN == 1
RED == 2
WHITE == 3

None == 0

NumberSuits == {SOUZU, PINZU, MANZU}

Tile(suit, v) == 10 * suit + v

RedTile(suit, v) == 100 + 10 * suit + v

suit_of(t) == (t % 100) \div 10

is_red(t) == t >= 100

is_number(t) == suit_of(t) \in NumberSuits

\* Tile.value: the rank of a suited tile, None (0) for a wind or a dragon.
value_of(t) == IF is_number(t) THEN t % 10 ELSE None

\* Tile.wind / Tile.dragon: the enum member of an honor tile.
honor_of(t) == t % 10

is_terminal(t) == value_of(t) \in {1, 9}

is_honor(t) == suit_of(t) \in {WIND, DRAGON}

is_terminal_or_honor(t) == is_terminal(t) \/ is_honor(t)

SuitValue(suit) ==
    CASE suit = SOUZU -> "sou"
      [] suit = PINZU -> "pin"
      [] suit = MANZU -> "man"
      [] suit = WIND -> "wind"
      [] suit = DRAGON -> "dragon"

WindValue(w) ==
    CASE w = EAST -> "east"
      [] w = SOUTH -> "south"
      [] w = WEST -> "west"
      [] w = NORTH -> "north"

DragonValue(d) ==
    CASE d = GREEN -> "green"
      [] d = RED -> "red"
      [] d = WHITE -> "white"

Digit(v) == <<"1", "2", "3", "4", "5", "6", "7", "8", "9">>[v]

\* Tile.__str__: a string is modelled as the sequence of its parts,
\* "5rsou" as <<"5", "r", "sou">> and "east" as <<"east">>.
TileStr(t) ==
    IF is_number(t)
    THEN <<Digit(value_of(t)), IF is_red(t) THEN "r" ELSE "", SuitValue(suit_of(t))>>
    ELSE IF suit_of(t) = WIND
         THEN <<WindValue(honor_of(t))>>
         ELSE <<DragonValue(honor_of(t))>>

\* The key of every sort of tiles: (t.suit.value, t.value or 0).
SortKey(t) == 10 * suit_of(t) + value_of(t)

(***************************************************************************)
(* Python list helpers                                                     *)
(***************************************************************************)
Count(s, t) == Cardinality({i \in DOMAIN s : s[i] = t})

Contains(s, t) == \E i \in DOMAIN s : s[i] = t

ToSet(s) == {s[i] : i \in DOMAIN s}

\* [x] if cond else []
Opt(cond, x) == IF cond THEN <<x>> ELSE <<>>

\* list.remove(t): the first element equal to t is removed.
Remove(s, t) ==
    IF ~Contains(s, t) THEN s
    ELSE LET i == CHOOSE k \in DOMAIN s : s[k] = t /\ \A j \in 1..(k - 1) : s[j] # t
         IN  SubSeq(s, 1, i - 1) \o SubSeq(s, i + 1, Len(s))

RECURSIVE RemoveN(_, _, _)
RemoveN(s, t, n) == IF n = 0 THEN s ELSE RemoveN(Remove(s, t), t, n - 1)

\* s.append(t); s.sort(key=SortKey) on a list that is sorted already: the
\* sort is stable, so t lands behind every tile whose key is not larger.
InsertSorted(s, t) ==
    LET n == Cardinality({i \in DOMAIN s : SortKey(s[i]) <= SortKey(t)})
    IN  SubSeq(s, 1, n) \o <<t>> \o SubSeq(s, n + 1, Len(s))

(***************************************************************************)
(* tiles/wall.py                                                           *)
(***************************************************************************)
NoSeat == -1

NoTurn == -1

WallSize == 136

DeadWallSize == 14

MaxDoraIndicators == 4

\* Wall._build_wall: four copies of every kind, suits in the order souzu,
\* pinzu, manzu, then the winds, then the dragons; with red fives the first
\* five of a suit is the red one.
BuildSuits == <<SOUZU, PINZU, MANZU>>

build_wall(use_red_fives) ==
    [i \in 1..WallSize |->
        IF i <= 108
        THEN LET suit == BuildSuits[((i - 1) \div 36) + 1]
                 v == (((i - 1) % 36) \div 4) + 1
             IN  IF use_red_fives /\ v = 5 /\ (i - 1) % 4 = 0
                 THEN RedTile(suit, v)
                 ELSE Tile(suit, v)
        ELSE IF i <= 124
             THEN Tile(WIND, ((i - 109) \div 4) + 1)
             ELSE Tile(DRAGON, ((i - 125) \div 4) + 1)]

\* One outcome of random.shuffle: the tiles of `front` in that order, then
\* the other tiles of the built wall in build order (of every kind, the
\* copies that `front` does not use).
Permutation(built, front) ==
    LET Kept == {i \in DOMAIN built :
                    Cardinality({j \in 1..i : built[j] = built[i]}) > Count(front, built[i])}
    IN  front \o [k \in 1..Cardinality(Kept) |->
                    built[CHOOSE i \in Kept : Cardinality({j \in Kept : j <= i}) = k]]

\* Wall._shuffle after the shuffle itself: the last 14 tiles become the dead
\* wall and dead_wall[4] (0-based) is the first dora indicator.
shuffle(use_red_fives, order) ==
    [tiles |-> SubSeq(order, 1, WallSize - DeadWallSize),
     dead_wall |-> SubSeq(order, WallSize - DeadWallSize + 1, WallSize),
     dora_indicators |-> <<order[WallSize - DeadWallSize + 5]>>,
     use_red_fives |-> use_red_fives,
     empty_draws |-> 0]

\* A count that takes the dead wall for tiles still to be drawn.
tiles_remaining_with_dead_wall(w) == Len(w.tiles) + Len(w.dead_wall)

tiles_remaining(w) == Len(w.tiles)

\* Wall.draw_tile: tiles.pop(0), or ValueError("Wall is empty") when the
\* live wall has no tile.  empty_draws counts the calls that raised.
wall_draw_tile(w) ==
    IF w.tiles = <<>>
    THEN [raised |-> TRUE, tile |-> None, wall |-> [w EXCEPT !.empty_draws = @ + 1]]
    ELSE [raised |-> FALSE, tile |-> Head(w.tiles), wall |-> [w EXCEPT !.tiles = Tail(@)]]

\* Wall.add_dora_indicator
add_dora_indicator(w) ==
    IF Len(w.dora_indicators) < MaxDoraIndicators
    THEN [w EXCEPT !.dora_indicators = Append(@, w.dead_wall[4 + Len(w.dora_indicators) + 1])]
    ELSE w

(***************************************************************************)
(* game/hand.py                                                            *)
(***************************************************************************)
NewHand ==
    [concealed_tiles |-> <<>>, melds |-> <<>>, discards |-> <<>>,
     is_riichi |-> FALSE, riichi_turn |-> NoTurn, ippatsu_eligible |-> FALSE,
     last_drawn_tile |-> None, furiten_state |-> FALSE, temp_furiten |-> FALSE]

Meld(tiles, is_open, called_from) ==
    [tiles |-> tiles, is_open |-> is_open, called_from |-> called_from]

meld_type(m) ==
    IF Len(m.tiles) = 2 THEN "pair"
    ELSE IF Len(m.tiles) = 3
         THEN IF \A i \in DOMAIN m.tiles : m.tiles[i] = m.tiles[1]
              THEN "triplet" ELSE "sequence"
         ELSE IF Len(m.tiles) = 4 THEN "kan" ELSE "unknown"

add_tile(h, tile) ==
    [h EXCEPT !.concealed_tiles = InsertSorted(@, tile),
              !.last_drawn_tile = tile,
              !.temp_furiten = FALSE]

remove_tile(h, tile) == [h EXCEPT !.concealed_tiles = Remove(@, tile)]

hand_discard_tile(h, tile, from_riichi_declaration) ==
    IF Contains(h.concealed_tiles, tile)
    THEN [remove_tile(h, tile) EXCEPT
              !.discards = Append(@, tile),
              !.last_drawn_tile = None,
              !.ippatsu_eligible =
                  IF h.is_riichi /\ h.ippatsu_eligible /\ ~from_riichi_declaration
                  THEN FALSE ELSE @,
              !.temp_furiten = FALSE]
    ELSE h

add_meld(h, meld) == [h EXCEPT !.melds = Append(@, meld)]

is_closed(h) == \A i \in DOMAIN h.melds : ~h.melds[i].is_open

\* Hand._get_all_possible_tiles: the 34 kinds, none of them red.
AllPossibleTiles ==
    {Tile(s, v) : s \in NumberSuits, v \in 1..9}
        \cup {Tile(WIND, w) : w \in 1..4} \cup {Tile(DRAGON, d) : d \in 1..3}

\* tiles_sorted[0] of Hand._can_form_melds: the sort is stable, so it is
\* the first tile of least key in list order.
FirstSorted(tiles) ==
    LET i == CHOOSE k \in DOMAIN tiles :
                 /\ \A j \in DOMAIN tiles : SortKey(tiles[k]) <= SortKey(tiles[j])
                 /\ \A j \in 1..(k - 1) : SortKey(tiles[j]) # SortKey(tiles[k])
    IN  tiles[i]

RECURSIVE can_form_melds(_, _)
can_form_melds(tiles, melds_needed) ==
    IF melds_needed = 0 THEN Len(tiles) = 0
    ELSE IF Len(tiles) # melds_needed * 3 THEN FALSE
    ELSE LET first_tile == FirstSorted(tiles)
             tile2 == Tile(suit_of(first_tile), value_of(first_tile) + 1)
             tile3 == Tile(suit_of(first_tile), value_of(first_tile) + 2)
         IN  \/ /\ Count(tiles, first_tile) >= 3
                /\ can_form_melds(RemoveN(tiles, first_tile, 3), melds_needed - 1)
             \/ /\ is_number(first_tile)
                /\ value_of(first_tile) <= 7
                /\ Contains(tiles, tile2)
                /\ Contains(tiles, tile3)
                /\ can_form_melds(
                       Remove(Remove(Remove(tiles, first_tile), tile2), tile3),
                       melds_needed - 1)

is_complete_standard_hand(tiles, fixed_melds) ==
    LET melds_needed == 4 - fixed_melds
    IN  /\ melds_needed >= 0
        /\ Len(tiles) = 2 + melds_needed * 3
        /\ \E tile \in ToSet(tiles) :
               /\ Count(tiles, tile) >= 2
               /\ can_form_melds(RemoveN(tiles, tile, 2), melds_needed)

is_chiitoitsu(tiles) ==
    /\ Len(tiles) = 14
    /\ Cardinality(ToSet(tiles)) = 7
    /\ \A tile \in ToSet(tiles) : Count(tiles, tile) = 2

TerminalsAndHonors == {t \in AllPossibleTiles : is_terminal_or_honor(t)}

is_kokushi(tiles) ==
    /\ Len(tiles) = 14
    /\ TerminalsAndHonors \subseteq ToSet(tiles)
    /\ \E tile \in TerminalsAndHonors : Count(tiles, tile) >= 2

is_complete_hand(tiles) ==
    /\ Len(tiles) = 14
    /\ \/ is_kokushi(tiles)
       \/ is_chiitoitsu(tiles)
       \/ is_complete_standard_hand(tiles, 0)

get_winning_tiles(h) ==
    {tile \in AllPossibleTiles : is_complete_hand(Append(h.concealed_tiles, tile))}

get_winning_tiles_with_fixed_melds(concealed_tiles, fixed_melds) ==
    {tile \in AllPossibleTiles :
        is_complete_standard_hand(Append(concealed_tiles, tile), fixed_melds)}

is_tenpai(h) == get_winning_tiles(h) # {}

\* check_furiten without the look at the discard pile.
check_furiten_ignoring_discards(h) ==
    [h EXCEPT !.furiten_state = FALSE]

\* Hand.check_furiten: own discards only.
check_furiten(h) ==
    [h EXCEPT !.furiten_state = (ToSet(h.discards) \cap get_winning_tiles(h) # {})]

\* Hand.declare_riichi raises ValueError unless the hand is closed and tenpai.
hand_declare_riichi_raises(h) == ~is_closed(h) \/ ~is_tenpai(h)

hand_declare_riichi(h, turn) ==
    [h EXCEPT !.is_riichi = TRUE, !.riichi_turn = turn, !.ippatsu_eligible = TRUE]

get_all_tiles(h) ==
    LET RECURSIVE Melded(_)
        Melded(k) == IF k = 0 THEN <<>> ELSE Melded(k - 1) \o h.melds[k].tiles
    IN  h.concealed_tiles \o Melded(Len(h.melds))

(***************************************************************************)
(* game/player.py                                                          *)
(***************************************************************************)
StartingScore == 25000

RiichiCost == 1000

NewPlayer(name, seat_wind) ==
    [name |-> name, seat_wind |-> seat_wind, hand |-> NewHand,
     score |-> StartingScore, is_dealer |-> FALSE, riichi_bets |-> 0]

draw_tile(p, tile) == [p EXCEPT !.hand = add_tile(@, tile)]

\* Player.discard_tile raises ValueError for a tile that is not in the hand.
player_discard_tile_raises(p, tile) == ~Contains(p.hand.concealed_tiles, tile)

\* Player.discard_tile(self, tile): the hand discards without the riichi flag.
player_discard_tile(p, tile) ==
    [p EXCEPT !.hand = hand_discard_tile(@, tile, FALSE)]

\* The parameters Player.discard_tile accepts; a call with any other keyword
\* raises TypeError.
PlayerDiscardTileParameters == {"self", "tile"}

\* Player.can_call_chii: the runs the discard completes with two held tiles;
\* each run is named by the offset of its lowest tile.
can_call_chii(p, tile, from_left) ==
    IF ~from_left \/ is_honor(tile) THEN {}
    ELSE {offset \in {-2, -1, 0} :
            /\ ~(value_of(tile) + offset < 1 \/ value_of(tile) + offset > 7)
            /\ \A i \in 0..2 :
                   i # -offset =>
                       Contains(p.hand.concealed_tiles,
                                Tile(suit_of(tile), value_of(tile) + offset + i))}

can_call_pon(p, tile) == Count(p.hand.concealed_tiles, tile) >= 2

can_call_kan(p, tile) == Count(p.hand.concealed_tiles, tile) >= 3

can_call_ron(p, tile) ==
    /\ ~(p.hand.furiten_state \/ p.hand.temp_furiten)
    /\ tile \in get_winning_tiles(p.hand)

can_tsumo(p) == Len(p.hand.concealed_tiles) = 14 /\ is_tenpai(p.hand)

RECURSIVE RemoveOthers(_, _, _)
RemoveOthers(h, sequence, tile) ==
    IF sequence = <<>> THEN h
    ELSE RemoveOthers(IF Head(sequence) # tile THEN remove_tile(h, Head(sequence)) ELSE h,
                      Tail(sequence), tile)

\* Player.call_chii: every tile of the sequence that differs from the called
\* tile is removed from the hand; the meld is the sequence as given.
call_chii(p, tile, sequence) ==
    [p EXCEPT !.hand = add_meld(RemoveOthers(@, sequence, tile), Meld(sequence, TRUE, 3))]

\* Player.call_pon: two tiles leave the hand, the meld is three copies of
\* the called tile.
call_pon(p, tile, called_from) ==
    [p EXCEPT !.hand = add_meld([@ EXCEPT !.concealed_tiles = RemoveN(@, tile, 2)],
                                Meld(<<tile, tile, tile>>, TRUE, called_from))]

\* Player.call_kan: open from a discard (called_from given) or closed.
call_kan(p, tile, called_from) ==
    IF called_from # NoSeat
    THEN [p EXCEPT !.hand = add_meld([@ EXCEPT !.concealed_tiles = RemoveN(@, tile, 3)],
                                     Meld(<<tile, tile, tile, tile>>, TRUE, called_from))]
    ELSE [p EXCEPT !.hand = add_meld([@ EXCEPT !.concealed_tiles = RemoveN(@, tile, 4)],
                                     Meld(<<tile, tile, tile, tile>>, FALSE, NoSeat))]

\* Player.declare_riichi raises below 1000 points and when the hand refuses.
declare_riichi_raises(p) == p.score < RiichiCost \/ hand_declare_riichi_raises(p.hand)

declare_riichi(p, turn) ==
    [p EXCEPT !.hand = hand_declare_riichi(@, turn),
              !.score = @ - RiichiCost,
              !.riichi_bets = @ + 1]

\* An add_score that leaves a score alone when the points are a loss.
add_score_ignoring_losses(p, points) ==
    [p EXCEPT !.score = IF points > 0 THEN @ + points ELSE @]

add_score(p, points) == [p EXCEPT !.score = @ + points]

\* Player has no attribute can_upgrade_pon_to_kan (nor upgrade_pon_to_kan):
\* evaluating player.can_upgrade_pon_to_kan raises AttributeError.
PlayerAttributes ==
    {"draw_tile", "discard_tile", "can_call_chii", "can_call_pon", "can_call_kan",
     "can_call_ron", "can_tsumo", "call_chii", "call_pon", "call_kan",
     "declare_riichi", "add_score", "is_tenpai", "get_safe_tiles",
     "name", "seat_wind", "hand", "score", "is_dealer", "riichi_bets"}

(***************************************************************************)
(* game/engine.py: the engine is a record e of the fields of MahjongEngine *)
(* and every method is an operator from e to the engine it leaves and the  *)
(* value it returns.  Seats are 0..3 as in the code.                       *)
(***************************************************************************)
Seats == 0..3

SeatWinds == <<EAST, SOUTH, WEST, NORTH>>

DEALING == "dealing"

PLAYING == "playing"

ENDED == "ended"

player_names == <<"A", "B", "C", "D">>

\* self.wall.draw_tile() followed by player.draw_tile(tile) for one seat.
draw_for(e, seat) ==
    LET drawn == wall_draw_tile(e.wall)
    IN  IF drawn.raised THEN [e EXCEPT !.wall = drawn.wall]
        ELSE [e EXCEPT !.wall = drawn.wall,
                       !.players[seat] = draw_tile(@, drawn.tile)]

\* The tiles 1..n of the live wall that go to `seat` when they are dealt
\* one at a time to the seats in turn.
DealtTo(tiles, n, seat) ==
    LET Mine == {i \in 1..n : (i - 1) % 4 = seat}
    IN  [k \in 1..Cardinality(Mine) |-> tiles[4 * (k - 1) + seat + 1]]

RECURSIVE draw_tiles(_, _)
draw_tiles(p, tiles) ==
    IF tiles = <<>> THEN p
    ELSE draw_tile(draw_tiles(p, SubSeq(tiles, 1, Len(tiles) - 1)), tiles[Len(tiles)])

\* MahjongEngine._deal_initial_hands: 13 rounds of one tile to every seat
\* in seat order, a 14th tile to the dealer, then the phase is Playing.
deal_initial_hands(e) ==
    [e EXCEPT !.players = [i \in Seats |->
                  draw_tiles(@[i], DealtTo(e.wall.tiles, 13 * 4, i)
                                       \o Opt(i = e.dealer, e.wall.tiles[13 * 4 + 1]))],
              !.wall.tiles = SubSeq(@, 13 * 4 + 2, Len(@)),
              !.phase = PLAYING]

clear_pending_chankan(e) ==
    [e EXCEPT !.pending_chankan_tile = None,
              !.pending_chankan_from = NoSeat,
              !.pending_chankan_responders = {}]

\* MahjongEngine.__init__ for four names; order is the outcome of the shuffle.
new_engine(use_red_fives, order) ==
    deal_initial_hands(
        [players |-> [i \in Seats |->
                         [NewPlayer(player_names[i + 1], SeatWinds[i + 1])
                              EXCEPT !.is_dealer = (i = 0)]],
         wall |-> shuffle(use_red_fives, order),
         current_player |-> 0,
         dealer |-> 0,
         round_wind |-> EAST,
         round_number |-> 1,
         turn_number |-> 0,
         phase |-> DEALING,
         last_discard |-> None,
         last_discard_player |-> NoSeat,
         riichi_bets |-> 0,
         honba |-> 0,
         last_action_was_kan_draw |-> FALSE,
         has_open_call |-> FALSE,
         pending_chankan_tile |-> None,
         pending_chankan_from |-> NoSeat,
         pending_chankan_responders |-> {}])

clear_ippatsu_all(e) ==
    [e EXCEPT !.players = [i \in Seats |-> [@[i] EXCEPT !.hand.ippatsu_eligible = FALSE]]]

\* YakuChecker.check_all_yaku (game/rules.py) takes these parameters and no
\* others; every call of it in the engine also passes the keys of
\* _build_yaku_context, so the call raises TypeError before a yaku is looked at.
CheckAllYakuParameters ==
    {"hand", "winning_tile", "is_tsumo", "seat_wind", "round_wind",
     "dora_tiles", "ura_dora_tiles"}

YakuContextKeys ==
    {"is_ippatsu", "is_double_riichi", "is_rinshan", "is_chankan",
     "is_haitei", "is_houtei", "is_tenhou", "is_chiihou"}

\* MahjongEngine._has_yaku_for_win: whether the call raises and, if it does
\* not, whether a yaku other than Dora is found.  The call of check_all_yaku
\* raises, so no value is ever produced.
has_yaku_for_win(e, player_index, winning_tile, is_tsumo, is_chankan) ==
    [raised |-> ~(YakuContextKeys \subseteq CheckAllYakuParameters), value |-> FALSE]

\* YakuChecker._check_menzen_tsumo (game/rules.py): one of the yaku
\* check_all_yaku lists, a yaku other than Dora.
check_menzen_tsumo(h, is_tsumo) == is_closed(h) /\ is_tsumo

\* MahjongEngine._riichi_kan_allowed
riichi_kan_allowed(p, kan_tile) ==
    IF ~p.hand.is_riichi THEN TRUE
    ELSE IF Count(p.hand.concealed_tiles, kan_tile) < 4 THEN FALSE
    ELSE get_winning_tiles_with_fixed_melds(p.hand.concealed_tiles, Len(p.hand.melds))
           = get_winning_tiles_with_fixed_melds(
                 RemoveN(p.hand.concealed_tiles, kan_tile, 4), Len(p.hand.melds) + 1)

\* MahjongEngine.can_call_closed_kan: the strings of the tiles held four times.
can_call_closed_kan(e, player_index) ==
    LET p == e.players[player_index]
    IN  {TileStr(tile) : tile \in
            {t \in ToSet(p.hand.concealed_tiles) :
                Count(p.hand.concealed_tiles, t) = 4 /\ riichi_kan_allowed(p, t)}}

\* MahjongEngine.can_upgrade_pon_to_kan (the engine's own method)
can_upgrade_pon_to_kan(e, player_index) ==
    LET p == e.players[player_index]
    IN  IF p.hand.is_riichi THEN {}
        ELSE {TileStr(p.hand.melds[i].tiles[1]) : i \in
                {k \in DOMAIN p.hand.melds :
                    /\ meld_type(p.hand.melds[k]) = "triplet"
                    /\ p.hand.melds[k].is_open
                    /\ Contains(p.hand.concealed_tiles, p.hand.melds[k].tiles[1])}}

\* MahjongEngine._can_declare_riichi
can_declare_riichi(e, player_index) ==
    LET p == e.players[player_index]
    IN  /\ is_closed(p.hand)
        /\ is_tenpai(p.hand)
        /\ p.score >= RiichiCost
        /\ ~p.hand.is_riichi

\* MahjongEngine.get_game_state: the returned dictionary.
get_game_state(e) ==
    [phase |-> e.phase,
     current_player |-> e.current_player,
     dealer |-> e.dealer,
     round_wind |-> WindValue(e.round_wind),
     round_number |-> e.round_number,
     turn_number |-> e.turn_number,
     wall_tiles_remaining |-> tiles_remaining(e.wall),
     dora_indicators |-> [i \in DOMAIN e.wall.dora_indicators |-> TileStr(e.wall.dora_indicators[i])],
     last_discard |-> IF e.last_discard # None THEN TileStr(e.last_discard) ELSE <<>>,
     riichi_bets |-> e.riichi_bets,
     players |-> [i \in Seats |->
         [name |-> e.players[i].name,
          score |-> e.players[i].score,
          seat_wind |-> WindValue(e.players[i].seat_wind),
          is_dealer |-> e.players[i].is_dealer,
          is_riichi |-> e.players[i].hand.is_riichi,
          hand_size |-> Len(e.players[i].hand.concealed_tiles),
          melds |-> Len(e.players[i].hand.melds),
          discards |-> [k \in DOMAIN e.players[i].hand.discards |-> TileStr(e.players[i].hand.discards[k])],
          is_tenpai |-> is_tenpai(e.players[i].hand)]]]

\* MahjongEngine.get_player_hand: the returned dictionary.
get_player_hand(e, player_index) ==
    LET p == e.players[player_index]
    IN  [concealed_tiles |-> [k \in DOMAIN p.hand.concealed_tiles |-> TileStr(p.hand.concealed_tiles[k])],
         melds |-> [k \in DOMAIN p.hand.melds |->
                      [tiles |-> [j \in DOMAIN p.hand.melds[k].tiles |-> TileStr(p.hand.melds[k].tiles[j])],
                       type |-> meld_type(p.hand.melds[k]),
                       is_open |-> p.hand.melds[k].is_open]],
         winning_tiles |-> {TileStr(t) : t \in get_winning_tiles(p.hand)},
         is_tenpai |-> is_tenpai(p.hand),
         can_riichi |-> can_declare_riichi(e, player_index),
         closed_kan_tiles |-> can_call_closed_kan(e, player_index),
         upgrade_kan_tiles |-> can_upgrade_pon_to_kan(e, player_index)]

RECURSIVE SumMeldTiles(_, _)
SumMeldTiles(melds, k) ==
    IF k = 0 THEN 0 ELSE SumMeldTiles(melds, k - 1) + Len(melds[k].tiles)

\* sum(len(meld.tiles) for meld in melds) + len(concealed_tiles)
total_tiles(p) ==
    Len(p.hand.concealed_tiles) + SumMeldTiles(p.hand.melds, Len(p.hand.melds))

Actions(e, actions) == [e |-> e, actions |-> actions, raised |-> FALSE]

ActionsRaise(e) == [e |-> e, actions |-> <<>>, raised |-> TRUE]

\* The part of get_valid_actions for the current player once it holds 14
\* tiles.  The winning tile is computed first (concealed_tiles[-1] raises
\* IndexError on an empty hand); _has_yaku_for_win is called only when
\* can_tsumo() holds.
current_player_actions(e, player_index, with_kan) ==
    LET p == e.players[player_index]
        winning_tile == IF p.hand.last_drawn_tile # None THEN p.hand.last_drawn_tile
                        ELSE p.hand.concealed_tiles[Len(p.hand.concealed_tiles)]
        yaku == has_yaku_for_win(e, player_index, winning_tile, TRUE, FALSE)
    IN  IF p.hand.last_drawn_tile = None /\ p.hand.concealed_tiles = <<>>
        THEN ActionsRaise(e)
        ELSE IF can_tsumo(p) /\ yaku.raised
        THEN ActionsRaise(e)
        ELSE Actions(e,
                 <<"discard">>
                 \o Opt(can_tsumo(p) /\ yaku.value, "tsumo")
                 \o Opt(with_kan /\ (can_call_closed_kan(e, player_index) # {}
                                     \/ can_upgrade_pon_to_kan(e, player_index) # {}), "kan")
                 \o Opt(can_declare_riichi(e, player_index), "riichi"))

\* A get_valid_actions that makes any seat holding 13 tiles draw, not the
\* current player alone.
get_valid_actions_drawing_for_any_seat(e, player_index) ==
    IF total_tiles(e.players[player_index]) = 13 /\ tiles_remaining(e.wall) > 0
    THEN current_player_actions(draw_for(e, player_index), player_index, FALSE)
    ELSE IF e.current_player = player_index /\ total_tiles(e.players[player_index]) = 14
    THEN current_player_actions(e, player_index, TRUE)
    ELSE Actions(e, <<>>)

\* MahjongEngine.get_valid_actions: the engine it leaves (a current player
\* holding 13 tiles is made to draw) and the list it returns.
get_valid_actions(e, player_index) ==
    LET p == e.players[player_index]
    IN  IF e.pending_chankan_tile # None /\ player_index = e.pending_chankan_from
        THEN Actions(e, <<>>)
        ELSE IF e.current_player = player_index
        THEN IF total_tiles(p) = 14
             THEN current_player_actions(e, player_index, TRUE)
             ELSE IF total_tiles(p) = 13 /\ tiles_remaining(e.wall) > 0
                  THEN current_player_actions(draw_for(e, player_index), player_index, FALSE)
                  ELSE Actions(e, <<>>)
        ELSE IF e.pending_chankan_tile # None /\ player_index \in e.pending_chankan_responders
        THEN LET yaku == has_yaku_for_win(e, player_index, e.pending_chankan_tile, FALSE, TRUE)
             IN  IF can_call_ron(p, e.pending_chankan_tile) /\ yaku.raised
                 THEN ActionsRaise(e)
                 ELSE Actions(e, Opt(can_call_ron(p, e.pending_chankan_tile) /\ yaku.value, "ron")
                                 \o <<"pass">>)
        ELSE IF e.last_discard # None
        THEN IF can_call_ron(p, e.last_discard)
                  /\ has_yaku_for_win(e, player_index, e.last_discard, FALSE, FALSE).raised
             THEN ActionsRaise(e)
             ELSE Actions(e,
                      Opt(can_call_ron(p, e.last_discard)
                          /\ has_yaku_for_win(e, player_index, e.last_discard, FALSE, FALSE).value,
                          "ron")
                      \o Opt(can_call_pon(p, e.last_discard), "pon")
                      \o Opt(can_call_kan(p, e.last_discard), "kan")
                      \o Opt((e.last_discard_player + 1) % 4 = player_index
                             /\ can_call_chii(p, e.last_discard, TRUE) # {}, "chii")
                      \o <<"pass">>)
        ELSE Actions(e, <<>>)

(***************************************************************************)
(* execute_action and its handlers.  A handler yields the engine it        *)
(* leaves, the dictionary it returns and whether it raised instead.        *)
(***************************************************************************)
Result(success, message) ==
    [success |-> success, message |-> message, game_ended |-> FALSE,
     pending_chankan |-> FALSE, tenpai_players |-> {}]

Return(e, success, message) ==
    [e |-> e, r |-> Result(success, message), raised |-> FALSE]

Raise(e, message) == [e |-> e, r |-> Result(FALSE, message), raised |-> TRUE]

\* for tile in concealed_tiles: if str(tile) == tile_str: ...; break
FindTile(p, tile_str) ==
    IF \E i \in DOMAIN p.hand.concealed_tiles : TileStr(p.hand.concealed_tiles[i]) = tile_str
    THEN LET i == CHOOSE k \in DOMAIN p.hand.concealed_tiles :
                      /\ TileStr(p.hand.concealed_tiles[k]) = tile_str
                      /\ \A j \in 1..(k - 1) : TileStr(p.hand.concealed_tiles[j]) # tile_str
         IN  p.hand.concealed_tiles[i]
    ELSE None

check_furiten_all(e) ==
    [e EXCEPT !.players = [i \in Seats |-> [@[i] EXCEPT !.hand = check_furiten(@)]]]

\* MahjongEngine._execute_discard
execute_discard(e, player_index, tile_str) ==
    IF player_index # e.current_player THEN Return(e, FALSE, "Not your turn")
    ELSE LET p == e.players[player_index]
             tile_to_discard == FindTile(p, tile_str)
         IN  IF tile_to_discard = None THEN Return(e, FALSE, "Tile not found in hand")
             ELSE Return(
                      check_furiten_all(
                          [e EXCEPT !.players[player_index] =
                                        player_discard_tile(@, tile_to_discard),
                                    !.last_discard = tile_to_discard,
                                    !.last_discard_player = player_index,
                                    !.last_action_was_kan_draw = FALSE]),
                      TRUE, "Discarded")

\* MahjongEngine._execute_tsumo: past can_tsumo() the engine calls
\* check_all_yaku with the yaku context, as _has_yaku_for_win does; the
\* call raises, and the statements behind it are never reached.
execute_tsumo(e, player_index) ==
    LET p == e.players[player_index]
        winning_tile == IF p.hand.last_drawn_tile # None THEN p.hand.last_drawn_tile
                        ELSE p.hand.concealed_tiles[Len(p.hand.concealed_tiles)]
    IN  IF ~can_tsumo(p) THEN Return(e, FALSE, "Cannot tsumo")
        ELSE IF has_yaku_for_win(e, player_index, winning_tile, TRUE, FALSE).raised
        THEN Raise(e, "check_all_yaku() got an unexpected keyword argument")
        ELSE Return(e, FALSE, "No yaku - cannot win")

\* A ron that skips the yaku evaluation and pays the winner 1000 points.
execute_ron_without_yaku_check(e, player_index) ==
    LET p == e.players[player_index]
        is_chankan == e.pending_chankan_tile # None
                          /\ player_index \in e.pending_chankan_responders
        winning_tile == IF is_chankan THEN e.pending_chankan_tile ELSE e.last_discard
        discarder_index == IF is_chankan THEN e.pending_chankan_from
                           ELSE IF e.last_discard # None THEN e.last_discard_player
                           ELSE NoSeat
    IN  IF winning_tile = None \/ discarder_index = NoSeat \/ ~can_call_ron(p, winning_tile)
        THEN Return(e, FALSE, "Cannot call ron")
        ELSE [e |-> [clear_pending_chankan(e) EXCEPT
                        !.players = [i \in Seats |->
                            IF i = player_index /\ i # discarder_index
                            THEN add_score(@[i], 1000 + e.riichi_bets * 1000)
                            ELSE IF i = discarder_index /\ i # player_index
                            THEN add_score(@[i], -1000)
                            ELSE @[i]],
                        !.riichi_bets = 0,
                        !.phase = ENDED],
              r |-> [Result(TRUE, "won by ron!") EXCEPT !.game_ended = TRUE],
              raised |-> FALSE]

\* MahjongEngine._execute_ron: past can_call_ron() the engine calls
\* check_all_yaku with the yaku context; the call raises, and the statements
\* behind it are never reached.
execute_ron(e, player_index) ==
    LET p == e.players[player_index]
        is_chankan == e.pending_chankan_tile # None
                          /\ player_index \in e.pending_chankan_responders
        winning_tile == IF is_chankan THEN e.pending_chankan_tile ELSE e.last_discard
        discarder_index == IF is_chankan THEN e.pending_chankan_from
                           ELSE IF e.last_discard # None THEN e.last_discard_player
                           ELSE NoSeat
    IN  IF winning_tile = None \/ discarder_index = NoSeat \/ ~can_call_ron(p, winning_tile)
        THEN Return(e, FALSE, "Cannot call ron")
        ELSE IF has_yaku_for_win(e, player_index, winning_tile, FALSE, is_chankan).raised
        THEN Raise(e, "check_all_yaku() got an unexpected keyword argument")
        ELSE Return(e, FALSE, "No yaku - cannot win")

\* MahjongEngine._execute_riichi.  The riichi is declared and the pool is
\* raised first; the discard is then asked of Player.discard_tile with the
\* keyword from_riichi_declaration, which that method does not accept:
\* TypeError, with the declaration already applied.
execute_riichi(e, player_index, tile_str) ==
    IF player_index # e.current_player THEN Return(e, FALSE, "Not your turn")
    ELSE IF ~can_declare_riichi(e, player_index)
    THEN Return(e, FALSE, "Cannot declare riichi")
    ELSE LET p == e.players[player_index]
             tile_to_discard == FindTile(p, tile_str)
             declared == [e EXCEPT !.players[player_index] = declare_riichi(@, e.turn_number),
                                   !.riichi_bets = @ + 1]
         IN  IF tile_to_discard = None THEN Return(e, FALSE, "Tile not found in hand")
             ELSE IF declare_riichi_raises(p) THEN Raise(e, "Cannot declare riichi")
             ELSE IF "from_riichi_declaration" \notin PlayerDiscardTileParameters
             THEN Raise(declared,
                        "discard_tile() got an unexpected keyword argument")
             ELSE Return(
                      [declared EXCEPT
                          !.players[player_index].hand =
                              hand_discard_tile(@, tile_to_discard, TRUE),
                          !.last_discard = tile_to_discard,
                          !.last_discard_player = player_index,
                          !.last_action_was_kan_draw = FALSE],
                      TRUE, "declared riichi and discarded")

\* MahjongEngine._perform_added_kan: its first statement,
\* player.upgrade_pon_to_kan(target_tile), raises AttributeError.
perform_added_kan(e, player_index, target_tile) ==
    IF "upgrade_pon_to_kan" \notin PlayerAttributes
    THEN Raise(e, "'Player' object has no attribute 'upgrade_pon_to_kan'")
    ELSE Return(e, TRUE, "declared kan")

\* MahjongEngine._execute_pass
execute_pass(e, player_index) ==
    LET p == e.players[player_index]
    IN  IF e.pending_chankan_tile # None /\ player_index \in e.pending_chankan_responders
        THEN LET e1 == [e EXCEPT
                          !.players[player_index].hand.temp_furiten =
                              IF can_call_ron(p, e.pending_chankan_tile) THEN TRUE ELSE @,
                          !.pending_chankan_responders = @ \ {player_index}]
             IN  IF e1.pending_chankan_responders # {}
                 THEN Return(e1, TRUE, "Passed chankan")
                 ELSE IF e.pending_chankan_from = NoSeat
                 THEN Return(clear_pending_chankan(e1), FALSE, "Invalid chankan state")
                 ELSE perform_added_kan(clear_pending_chankan(e1),
                                        e.pending_chankan_from, e.pending_chankan_tile)
        ELSE IF e.last_discard # None /\ player_index # e.current_player
                  /\ can_call_ron(p, e.last_discard)
        THEN Return([e EXCEPT !.players[player_index].hand.temp_furiten = TRUE],
                    TRUE, "Passed")
        ELSE Return(e, TRUE, "Passed")

\* The tiles of the hand that the strings of `sequence` name, in order: for
\* every string the first held tile with that string, if there is one.
RECURSIVE sequence_tiles(_, _)
sequence_tiles(p, sequence) ==
    IF sequence = <<>> THEN <<>>
    ELSE Opt(FindTile(p, Head(sequence)) # None, FindTile(p, Head(sequence)))
             \o sequence_tiles(p, Tail(sequence))

\* full_sequence.sort(key=lambda t: t.value), a stable sort by rank alone.
RECURSIVE SortByValue(_)
SortByValue(s) ==
    IF s = <<>> THEN <<>>
    ELSE LET t == s[Len(s)]
             sorted == SortByValue(SubSeq(s, 1, Len(s) - 1))
             n == Cardinality({i \in DOMAIN sorted : value_of(sorted[i]) <= value_of(t)})
         IN  SubSeq(sorted, 1, n) \o <<t>> \o SubSeq(sorted, n + 1, Len(sorted))

\* The state changes of a successful chii, after the sequence is sorted.
chii_effects(e, player_index, full_sequence) ==
    [clear_ippatsu_all(
         [e EXCEPT !.players[player_index] = call_chii(@, e.last_discard, full_sequence)])
        EXCEPT !.has_open_call = TRUE,
               !.current_player = player_index,
               !.last_discard = None,
               !.last_action_was_kan_draw = FALSE]

\* MahjongEngine._execute_chii.  Sorting by t.value raises TypeError when a
\* wind or dragon (value None) is among the three tiles.
execute_chii(e, player_index, sequence) ==
    LET p == e.players[player_index]
        found == sequence_tiles(p, sequence)
        full_sequence == found \o <<e.last_discard>>
    IN  IF e.last_discard = None THEN Return(e, FALSE, "No tile to call")
        ELSE IF (e.last_discard_player + 1) % 4 # player_index
        THEN Return(e, FALSE, "Can only chii from left player")
        ELSE IF Len(found) # 2 THEN Return(e, FALSE, "Invalid sequence")
        ELSE IF \E i \in DOMAIN full_sequence : is_honor(full_sequence[i])
        THEN Raise(e, "'<' not supported between instances of 'NoneType'")
        ELSE Return(chii_effects(e, player_index, SortByValue(full_sequence)),
                    TRUE, "called chii")

\* A pon that leaves the discard open to further calls.
pon_effects_keeping_discard(e, player_index) ==
    [clear_ippatsu_all(
         [e EXCEPT !.players[player_index] =
                       call_pon(@, e.last_discard, e.last_discard_player)])
        EXCEPT !.has_open_call = TRUE,
               !.current_player = player_index,
               !.last_action_was_kan_draw = FALSE]

\* The state changes of a successful pon.
pon_effects(e, player_index) ==
    [clear_ippatsu_all(
         [e EXCEPT !.players[player_index] =
                       call_pon(@, e.last_discard, e.last_discard_player)])
        EXCEPT !.has_open_call = TRUE,
               !.current_player = player_index,
               !.last_discard = None,
               !.last_action_was_kan_draw = FALSE]

\* MahjongEngine._execute_pon
execute_pon(e, player_index) ==
    IF e.last_discard = None \/ ~can_call_pon(e.players[player_index], e.last_discard)
    THEN Return(e, FALSE, "Cannot call pon")
    ELSE Return(pon_effects(e, player_index), TRUE, "called pon")

\* The dora indicator and the replacement draw that follow every kan: the
\* replacement tile is drawn from the live wall.
kan_draw(e, player_index) ==
    LET e1 == [e EXCEPT !.wall = add_dora_indicator(@),
                        !.last_action_was_kan_draw = FALSE]
    IN  IF tiles_remaining(e1.wall) > 0
        THEN [draw_for(e1, player_index) EXCEPT !.last_action_was_kan_draw = TRUE]
        ELSE e1

\* The state changes of a successful open kan, before the dora indicator.
open_kan_effects(e, player_index) ==
    [clear_ippatsu_all(
         [e EXCEPT !.players[player_index] =
                       call_kan(@, e.last_discard, e.last_discard_player)])
        EXCEPT !.has_open_call = TRUE,
               !.current_player = player_index,
               !.last_discard = None]

\* MahjongEngine._execute_kan
execute_kan(e, player_index) ==
    IF e.last_discard # None
    THEN IF ~can_call_kan(e.players[player_index], e.last_discard)
         THEN Return(e, FALSE, "Cannot call kan")
         ELSE Return(kan_draw(open_kan_effects(e, player_index), player_index),
                     TRUE, "called kan")
    ELSE Return(e, FALSE, "Closed kan not implemented")

\* MahjongEngine._execute_closed_or_added_kan.  Once the named tile is found
\* the handler evaluates player.can_upgrade_pon_to_kan, an attribute Player
\* does not have: AttributeError, and nothing behind it is reached.
execute_closed_or_added_kan(e, player_index, tile_str) ==
    IF player_index # e.current_player THEN Return(e, FALSE, "Not your turn")
    ELSE IF tile_str = <<>> THEN Return(e, FALSE, "Tile required for kan")
    ELSE IF FindTile(e.players[player_index], tile_str) = None
    THEN Return(e, FALSE, "Tile not found in hand")
    ELSE IF "can_upgrade_pon_to_kan" \notin PlayerAttributes
    THEN Raise(e, "'Player' object has no attribute 'can_upgrade_pon_to_kan'")
    ELSE Return(e, FALSE, "Cannot declare kan")

TenpaiPayment == 3000

\* MahjongEngine._handle_draw
handle_draw(e) ==
    LET tenpai_players == {i \in Seats : is_tenpai(e.players[i].hand)}
        k == Cardinality(tenpai_players)
        e1 == [clear_pending_chankan(e) EXCEPT !.phase = ENDED, !.honba = @ + 1]
        e2 == IF k > 0 /\ k < 4
              THEN [e1 EXCEPT !.players = [i \in Seats |->
                       IF i \in tenpai_players
                       THEN add_score(@[i], TenpaiPayment \div k)
                       ELSE add_score(@[i], -(TenpaiPayment \div (4 - k)))]]
              ELSE e1
    IN  [e |-> e2,
         r |-> [Result(TRUE, "Game drawn - wall empty") EXCEPT
                    !.game_ended = TRUE, !.tenpai_players = tenpai_players],
         raised |-> FALSE]

\* The handler execute_action dispatches to; kwargs holds "tile" and
\* "sequence" (the empty string <<>> stands for a missing tile).
dispatch(e, player_index, action, kwargs) ==
    CASE action = "discard" -> execute_discard(e, player_index, kwargs.tile)
      [] action = "tsumo" -> execute_tsumo(e, player_index)
      [] action = "ron" -> execute_ron(e, player_index)
      [] action = "riichi" -> execute_riichi(e, player_index, kwargs.tile)
      [] action = "chii" -> execute_chii(e, player_index, kwargs.sequence)
      [] action = "pon" -> execute_pon(e, player_index)
      [] action = "kan" ->
            IF e.last_discard # None
            THEN execute_kan(e, player_index)
            ELSE execute_closed_or_added_kan(e, player_index, kwargs.tile)
      [] action = "pass" -> execute_pass(e, player_index)
      [] OTHER -> Return(e, FALSE, "Unknown action")

\* MahjongEngine.execute_action: an exception leaves the initial result with
\* the exception's text; otherwise an empty live wall settles the draw unless
\* the handler's result already ends the game.
execute_action(e, player_index, action, kwargs) ==
    LET out == dispatch(e, player_index, action, kwargs)
    IN  IF out.raised THEN [e |-> out.e, r |-> out.r, raised |-> FALSE]
        ELSE IF tiles_remaining(out.e.wall) = 0 /\ ~out.r.game_ended
        THEN handle_draw(out.e)
        ELSE out

\* MahjongEngine.advance_turn
advance_turn(e) ==
    IF e.last_discard = None
    THEN LET e1 == [e EXCEPT !.current_player = (@ + 1) % 4,
                             !.last_action_was_kan_draw = FALSE]
             e2 == IF tiles_remaining(e1.wall) > 0
                   THEN draw_for(e1, e1.current_player) ELSE e1
         IN  [e2 EXCEPT !.turn_number = @ + 1]
    ELSE e

\* A start_new_round that also empties the riichi pool.
start_new_round_emptying_the_pool(e, order) ==
    deal_initial_hands(
        clear_pending_chankan(
            [e EXCEPT !.players = [i \in Seats |-> [@[i] EXCEPT !.hand = NewHand]],
                      !.wall = shuffle(e.wall.use_red_fives, order),
                      !.current_player = e.dealer,
                      !.turn_number = 0,
                      !.last_discard = None,
                      !.last_discard_player = NoSeat,
                      !.phase = DEALING,
                      !.riichi_bets = 0,
                      !.last_action_was_kan_draw = FALSE,
                      !.has_open_call = FALSE]))

\* MahjongEngine.start_new_round; order is the outcome of the new shuffle.
start_new_round(e, order) ==
    deal_initial_hands(
        clear_pending_chankan(
            [e EXCEPT !.players = [i \in Seats |-> [@[i] EXCEPT !.hand = NewHand]],
                      !.wall = shuffle(e.wall.use_red_fives, order),
                      !.current_player = e.dealer,
                      !.turn_number = 0,
                      !.last_discard = None,
                      !.last_discard_player = NoSeat,
                      !.phase = DEALING,
                      !.last_action_was_kan_draw = FALSE,
                      !.has_open_call = FALSE]))

\* An advance_round that looks at the round wind after changing it.
advance_round_ending_after_east(e) ==
    LET e1 == [e EXCEPT !.dealer = (@ + 1) % 4]
        e2 == [e1 EXCEPT !.players = [i \in Seats |->
                  [@[i] EXCEPT !.seat_wind = SeatWinds[((i - e1.dealer) % 4) + 1],
                               !.is_dealer = (i = e1.dealer)]]]
        e3 == [e2 EXCEPT !.round_wind = IF e2.dealer = 0 /\ @ = EAST THEN SOUTH ELSE @]
    IN  IF e3.dealer = 0 /\ e3.round_wind = SOUTH
        THEN [e |-> e3, value |-> TRUE]
        ELSE [e |-> [e3 EXCEPT !.round_number = @ + 1], value |-> FALSE]

\* MahjongEngine.advance_round: the engine it leaves and the value returned.
advance_round(e) ==
    LET e1 == [e EXCEPT !.dealer = (@ + 1) % 4]
        e2 == [e1 EXCEPT !.players = [i \in Seats |->
                  [@[i] EXCEPT !.seat_wind = SeatWinds[((i - e1.dealer) % 4) + 1],
                               !.is_dealer = (i = e1.dealer)]]]
    IN  IF e2.dealer = 0 /\ e2.round_wind = SOUTH
        THEN [e |-> e2, value |-> TRUE]
        ELSE [e |-> [e2 EXCEPT !.round_wind = IF e2.dealer = 0 /\ @ = EAST THEN SOUTH ELSE @,
                               !.round_number = @ + 1],
              value |-> FALSE]

\* MahjongEngine.is_game_over
is_game_over(e) ==
    \/ \E i \in Seats : e.players[i].score < 0
    \/ e.round_wind = SOUTH /\ e.dealer = 0

\* MahjongEngine.reset_game; order is the outcome of the new shuffle.
reset_game(e, order) ==
    deal_initial_hands(
        clear_pending_chankan(
            [e EXCEPT !.players = [i \in Seats |->
                          [@[i] EXCEPT !.score = StartingScore,
                                       !.hand = NewHand,
                                       !.riichi_bets = 0,
                                       !.is_dealer = (i = 0)]],
                      !.dealer = 0,
                      !.current_player = 0,
                      !.round_wind = EAST,
                      !.round_number = 1,
                      !.turn_number = 0,
                      !.riichi_bets = 0,
                      !.honba = 0,
                      !.last_discard = None,
                      !.last_discard_player = NoSeat,
                      !.last_action_was_kan_draw = FALSE,
                      !.has_open_call = FALSE,
                      !.wall = shuffle(e.wall.use_red_fives, order)]))

(***************************************************************************)
(* The decomposition enumerators (game/rules.py, game/scoring.py)          *)
(***************************************************************************)
\* YakuChecker._extract_melds and Scoring._extract_melds (the same code):
\* every way found to split the tiles into melds, each a list of melds.
RECURSIVE extract_melds(_)
extract_melds(tiles) ==
    IF tiles = <<>> THEN {<<>>}
    ELSE LET first == FirstSorted(tiles)
             tile2 == Tile(suit_of(first), value_of(first) + 1)
             tile3 == Tile(suit_of(first), value_of(first) + 2)
             triplets ==
                 IF Count(tiles, first) >= 3
                 THEN {<<<<first, first, first>>>> \o melds :
                          melds \in extract_melds(RemoveN(tiles, first, 3))}
                 ELSE {}
             sequences ==
                 IF /\ is_number(first)
                    /\ value_of(first) <= 7
                    /\ Contains(tiles, tile2)
                    /\ Contains(tiles, tile3)
                 THEN {<<<<first, tile2, tile3>>>> \o melds :
                          melds \in extract_melds(
                                        Remove(Remove(Remove(tiles, first), tile2), tile3))}
                 ELSE {}
         IN  triplets \cup sequences

\* YakuChecker._standard_decompositions: the melds of each decomposition
\* (the declared melds first) and its pair tile.
standard_decompositions(h, winning_tile) ==
    LET fixed_melds == [i \in DOMAIN h.melds |-> h.melds[i].tiles]
        melds_needed == 4 - Len(fixed_melds)
        required_len == 2 + melds_needed * 3
        concealed == IF Len(h.concealed_tiles) = required_len - 1
                     THEN Append(h.concealed_tiles, winning_tile)
                     ELSE h.concealed_tiles
    IN  IF melds_needed < 0 \/ Len(concealed) # required_len THEN {}
        ELSE {[melds |-> fixed_melds \o melds, pair_tile |-> pair_tile] :
                 <<pair_tile, melds>> \in
                     {d \in UNION {{<<t, ms>> : ms \in extract_melds(RemoveN(concealed, t, 2))} :
                                      t \in {u \in ToSet(concealed) : Count(concealed, u) >= 2}} :
                         Len(d[2]) = melds_needed}}

\* Scoring._decompose_standard_hand
decompose_standard_hand(tiles) ==
    IF Len(tiles) # 14 THEN {}
    ELSE UNION {{[melds |-> melds, pair_tile |-> pair_tile] :
                    melds \in extract_melds(RemoveN(tiles, pair_tile, 2))} :
                   pair_tile \in {u \in ToSet(tiles) : Count(tiles, u) >= 2}}

(***************************************************************************)
(* Scoring (game/scoring.py)                                               *)
(***************************************************************************)
LIMIT_BASE_POINTS ==
    [mangan |-> 2000, haneman |-> 3000, baiman |-> 4000, sanbaiman |-> 6000,
     yakuman |-> 8000]

\* The fu argument left at its default (fu=None).
NoFu == -1

\* The fu calculate_score uses when neither fu nor a hand is passed.
DefaultFu == 30

\* rules.Yaku: a name and its han.
Yaku(name, han) == [name |-> name, han |-> han]

Max(a, b) == IF a > b THEN a ELSE b

\* sum(yaku.han for yaku in yaku_list)
RECURSIVE total_han(_)
total_han(yaku_list) ==
    IF yaku_list = <<>> THEN 0 ELSE Head(yaku_list).han + total_han(Tail(yaku_list))

\* Scoring._count_yakuman: the yakuman multiples of the yaku other than Dora.
RECURSIVE count_yakuman(_)
count_yakuman(yaku_list) ==
    IF yaku_list = <<>> THEN 0
    ELSE LET yaku == Head(yaku_list)
         IN  (IF yaku.name # "Dora" /\ yaku.han >= 13
              THEN Max(1, yaku.han \div 13) ELSE 0)
                 + count_yakuman(Tail(yaku_list))

\* Base points that leave a hand of four han or fewer uncapped.
calculate_base_points_without_mangan_cap(fu, han) ==
    IF han >= 13 THEN LIMIT_BASE_POINTS.yakuman
    ELSE IF han >= 11 THEN LIMIT_BASE_POINTS.sanbaiman
    ELSE IF han >= 8 THEN LIMIT_BASE_POINTS.baiman
    ELSE IF han >= 6 THEN LIMIT_BASE_POINTS.haneman
    ELSE IF han >= 5 THEN LIMIT_BASE_POINTS.mangan
    ELSE fu * (2 ^ (han + 2))

\* Scoring._calculate_base_points
calculate_base_points(fu, han) ==
    IF han >= 13 THEN LIMIT_BASE_POINTS.yakuman
    ELSE IF han >= 11 THEN LIMIT_BASE_POINTS.sanbaiman
    ELSE IF han >= 8 THEN LIMIT_BASE_POINTS.baiman
    ELSE IF han >= 6 THEN LIMIT_BASE_POINTS.haneman
    ELSE LET base == fu * (2 ^ (han + 2))
         IN  IF han >= 5 \/ base >= LIMIT_BASE_POINTS.mangan
             THEN LIMIT_BASE_POINTS.mangan
             ELSE base

\* A rounding to the hundred below.
round_down_100(points) == (points \div 100) * 100

\* Scoring._round_up_100
round_up_100(points) == ((points + 99) \div 100) * 100

\* A score whose non-dealer tsumo rounds the total and splits it in half
\* and quarters.
calculate_score_splitting_the_total(yaku_list, is_dealer, is_tsumo, fu, honba) ==
    LET han == total_han(yaku_list)
        yakuman_count == count_yakuman(yaku_list)
        base_points ==
            IF yakuman_count > 0 THEN LIMIT_BASE_POINTS.yakuman * yakuman_count
            ELSE calculate_base_points(IF fu = NoFu THEN DefaultFu ELSE fu, han)
    IN  IF han = 0
        THEN [raised |-> TRUE, score |-> 0, payments |-> <<>>, base_points |-> 0]
        ELSE IF is_tsumo
        THEN IF is_dealer
             THEN LET payment_per_player == round_up_100(base_points * 2) + honba * 100
                  IN  [raised |-> FALSE, score |-> payment_per_player * 3,
                       payments |-> [all |-> payment_per_player],
                       base_points |-> base_points]
             ELSE LET total == round_up_100(base_points * 4)
                  IN  [raised |-> FALSE, score |-> total,
                       payments |-> [dealer |-> total \div 2,
                                     non_dealer |-> total \div 4],
                       base_points |-> base_points]
        ELSE LET ron_multiplier == IF is_dealer THEN 6 ELSE 4
                 final_score == round_up_100(base_points * ron_multiplier) + honba * 300
             IN  [raised |-> FALSE, score |-> final_score,
                  payments |-> [discarder |-> final_score],
                  base_points |-> base_points]

\* Scoring.calculate_score called with a yaku list, the two flags, fu and
\* honba, and no hand: ValueError for a list of no han, else the score, the
\* payments and the base points they were computed from.
calculate_score(yaku_list, is_dealer, is_tsumo, fu, honba) ==
    LET han == total_han(yaku_list)
        yakuman_count == count_yakuman(yaku_list)
        base_points ==
            IF yakuman_count > 0 THEN LIMIT_BASE_POINTS.yakuman * yakuman_count
            ELSE calculate_base_points(IF fu = NoFu THEN DefaultFu ELSE fu, han)
    IN  IF han = 0
        THEN [raised |-> TRUE, score |-> 0, payments |-> <<>>, base_points |-> 0]
        ELSE IF is_tsumo
        THEN IF is_dealer
             THEN LET payment_per_player == round_up_100(base_points * 2) + honba * 100
                  IN  [raised |-> FALSE, score |-> payment_per_player * 3,
                       payments |-> [all |-> payment_per_player],
                       base_points |-> base_points]
             ELSE LET dealer_payment == round_up_100(base_points * 2) + honba * 100
                      non_dealer_payment == round_up_100(base_points) + honba * 100
                  IN  [raised |-> FALSE,
                       score |-> dealer_payment + non_dealer_payment * 2,
                       payments |-> [dealer |-> dealer_payment,
                                     non_dealer |-> non_dealer_payment],
                       base_points |-> base_points]
        ELSE LET ron_multiplier == IF is_dealer THEN 6 ELSE 4
                 final_score == round_up_100(base_points * ron_multiplier) + honba * 300
             IN  [raised |-> FALSE, score |-> final_score,
                  payments |-> [discarder |-> final_score],
                  base_points |-> base_points]

(***************************************************************************)
(* The engine as a state machine.  The variables are the fields of one     *)
(* MahjongEngine; call, result and passed record the last call made on it, *)
(* what it returned, and the seats that passed on the discard now open;    *)
(* nops counts the calls made outside the main line of play, and changed   *)
(* tells whether the last call changed a field of the engine.              *)
(***************************************************************************)
VARIABLES players, wall, current_player, dealer, round_wind, round_number,
          turn_number, phase, last_discard, last_discard_player, riichi_bets,
          honba, last_action_was_kan_draw, has_open_call, pending_chankan_tile,
          pending_chankan_from, pending_chankan_responders,
          call, result, passed, nops, changed

vars ==
    <<players, wall, current_player, dealer, round_wind, round_number,
      turn_number, phase, last_discard, last_discard_player, riichi_bets,
      honba, last_action_was_kan_draw, has_open_call, pending_chankan_tile,
      pending_chankan_from, pending_chankan_responders,
      call, result, passed, nops, changed>>

Engine ==
    [players |-> players,
     wall |-> wall,
     current_player |-> current_player,
     dealer |-> dealer,
     round_wind |-> round_wind,
     round_number |-> round_number,
     turn_number |-> turn_number,
     phase |-> phase,
     last_discard |-> last_discard,
     last_discard_player |-> last_discard_player,
     riichi_bets |-> riichi_bets,
     honba |-> honba,
     last_action_was_kan_draw |-> last_action_was_kan_draw,
     has_open_call |-> has_open_call,
     pending_chankan_tile |-> pending_chankan_tile,
     pending_chankan_from |-> pending_chankan_from,
     pending_chankan_responders |-> pending_chankan_responders]

SetEngine(e) ==
    /\ players' = e.players
    /\ wall' = e.wall
    /\ current_player' = e.current_player
    /\ dealer' = e.dealer
    /\ round_wind' = e.round_wind
    /\ round_number' = e.round_number
    /\ turn_number' = e.turn_number
    /\ phase' = e.phase
    /\ last_discard' = e.last_discard
    /\ last_discard_player' = e.last_discard_player
    /\ riichi_bets' = e.riichi_bets
    /\ honba' = e.honba
    /\ last_action_was_kan_draw' = e.last_action_was_kan_draw
    /\ has_open_call' = e.has_open_call
    /\ pending_chankan_tile' = e.pending_chankan_tile
    /\ pending_chankan_from' = e.pending_chankan_from
    /\ pending_chankan_responders' = e.pending_chankan_responders
    /\ changed' = (e # Engine)

\* The calls outside the main line that one run may make.
MaxOps == 3

\* The live wall at or below which calls outside the main line are made
\* again, and how many of them.
LateWall == 0

LateOps == 1

\* The hands one shuffle deals: seat 0 holds a run of souzu, 7pin and three
\* east and draws 3man; seat 1 holds 2man and 4man; seat 2 holds three 3man;
\* seat 3 holds three 7pin and waits on 3man.
DealtHands ==
    <<  <<Tile(SOUZU, 1), Tile(SOUZU, 2), Tile(SOUZU, 3), Tile(SOUZU, 4), Tile(SOUZU, 5),
          Tile(SOUZU, 6), Tile(SOUZU, 7), Tile(SOUZU, 8), Tile(SOUZU, 9), Tile(PINZU, 7),
          Tile(WIND, EAST), Tile(WIND, EAST), Tile(WIND, EAST)>>,
        <<Tile(MANZU, 2), Tile(MANZU, 4), Tile(MANZU, 6), Tile(MANZU, 8), Tile(MANZU, 9),
          Tile(SOUZU, 1), Tile(SOUZU, 9), Tile(WIND, SOUTH), Tile(WIND, WEST),
          Tile(WIND, NORTH), Tile(DRAGON, WHITE), Tile(DRAGON, GREEN), Tile(DRAGON, RED)>>,
        <<Tile(MANZU, 3), Tile(MANZU, 3), Tile(MANZU, 3), Tile(MANZU, 5), Tile(MANZU, 7),
          Tile(PINZU, 2), Tile(PINZU, 8), Tile(SOUZU, 2), Tile(SOUZU, 8), Tile(WIND, SOUTH),
          Tile(WIND, WEST), Tile(WIND, NORTH), Tile(DRAGON, WHITE)>>,
        <<Tile(MANZU, 1), Tile(MANZU, 2), Tile(PINZU, 1), Tile(PINZU, 2), Tile(PINZU, 3),
          Tile(PINZU, 4), Tile(PINZU, 5), Tile(PINZU, 6), Tile(PINZU, 7), Tile(PINZU, 7),
          Tile(PINZU, 7), Tile(PINZU, 9), Tile(PINZU, 9)>>  >>

\* The front of the wall that deals `hands`, the dealer's fourteenth tile
\* `last`, and `next` as the first tile drawn after the deal.
Front(hands, last, next) ==
    [i \in 1..54 |-> IF i = 54 THEN next
                     ELSE IF i = 53 THEN last
                     ELSE hands[((i - 1) % 4) + 1][((i - 1) \div 4) + 1]]

\* The dealer draws 3man to its thirteen tiles; the next tile of the wall
\* is the fourth east.
DealtFront == Front(DealtHands, Tile(MANZU, 3), Tile(WIND, EAST))

\* The hands another shuffle deals: seat 0 holds the same thirteen tiles and
\* draws a second 7pin, which completes its hand; seat 1 holds 5pin, 6pin,
\* two 7pin and three white and waits on 4pin and 7pin.
DealtComplete ==
    <<  DealtHands[1],
        <<Tile(MANZU, 1), Tile(MANZU, 2), Tile(MANZU, 3), Tile(MANZU, 4), Tile(MANZU, 5),
          Tile(MANZU, 6), Tile(PINZU, 5), Tile(PINZU, 6), Tile(PINZU, 7), Tile(PINZU, 7),
          Tile(DRAGON, WHITE), Tile(DRAGON, WHITE), Tile(DRAGON, WHITE)>>,
        <<Tile(MANZU, 3), Tile(MANZU, 3), Tile(MANZU, 8), Tile(PINZU, 1), Tile(PINZU, 2),
          Tile(PINZU, 3), Tile(PINZU, 9), Tile(SOUZU, 2), Tile(WIND, SOUTH),
          Tile(WIND, SOUTH), Tile(WIND, WEST), Tile(DRAGON, GREEN), Tile(DRAGON, RED)>>,
        <<Tile(MANZU, 1), Tile(MANZU, 2), Tile(MANZU, 7), Tile(MANZU, 8), Tile(PINZU, 1),
          Tile(PINZU, 4), Tile(PINZU, 8), Tile(PINZU, 9), Tile(WIND, SOUTH),
          Tile(WIND, WEST), Tile(WIND, NORTH), Tile(DRAGON, GREEN), Tile(DRAGON, RED)>>  >>

CompleteFront == Front(DealtComplete, Tile(PINZU, 7), Tile(WIND, EAST))

\* The outcomes of random.shuffle that are explored, for a wall without and
\* with red fives.
OrderPlain == Permutation(build_wall(FALSE), DealtFront)

OrderRed == Permutation(build_wall(TRUE), DealtFront)

OrderComplete == Permutation(build_wall(FALSE), CompleteFront)

Orders(use_red_fives) ==
    IF use_red_fives THEN {OrderRed} ELSE {OrderPlain, OrderComplete}

\* The tile strings and chii sequences a caller passes.
TileArgs ==
    {<<>>, TileStr(Tile(MANZU, 3)), TileStr(Tile(WIND, EAST)), TileStr(Tile(PINZU, 7))}

SequenceArgs ==
    {<<TileStr(Tile(MANZU, 2)), TileStr(Tile(MANZU, 4))>>,
     <<TileStr(Tile(MANZU, 2)), TileStr(Tile(WIND, SOUTH))>>,
     <<TileStr(Tile(MANZU, 2))>>}

\* The string of the tile the current player drew last, if it holds one.
LastDrawnArg ==
    LET t == players[current_player].hand.last_drawn_tile
    IN  IF t # None THEN {TileStr(t)} ELSE {}

Requests ==
    [action : {"discard", "riichi", "kan"}, tile : TileArgs \cup LastDrawnArg,
     sequence : {<<>>}]
    \cup [action : {"chii"}, tile : {<<>>}, sequence : SequenceArgs]
    \cup [action : {"tsumo", "ron", "pon", "pass", "win"}, tile : {<<>>},
          sequence : {<<>>}]

\* The main line of play: the current player discards the tile it drew, and
\* asks for its actions again, which makes it draw.
MainLineDiscard(seat, req) ==
    /\ nops = 0
    /\ phase = PLAYING
    /\ seat = current_player
    /\ req.action = "discard"
    /\ total_tiles(players[seat]) = 14
    /\ req.tile \in LastDrawnArg

MainLineDraw(seat) ==
    /\ nops = 0
    /\ phase = PLAYING
    /\ seat = current_player
    /\ total_tiles(players[seat]) = 13
    /\ tiles_remaining(wall) > 0

\* The windows in which calls outside the main line are made.
Window ==
    \/ nops < MaxOps /\ tiles_remaining(wall) = WallSize - DeadWallSize - 53
    \/ nops < LateOps /\ tiles_remaining(wall) <= LateWall

\* A call outside the main line: it follows a call that changed the engine
\* (the calls after one that changed nothing are the calls before it).
Aside == changed /\ Window

\* A seat that has just asked for its valid actions executes one: in the
\* window when the question changed nothing, and for a seat in riichi also
\* when the question made it draw.
Follows(seat) ==
    /\ call.op = "get_valid_actions"
    /\ call.seat = seat
    /\ IF changed THEN nops <= MaxOps /\ players[seat].hand.is_riichi ELSE Window

\* A seat that has just called a kan asks for its valid actions.
AfterKan(seat) ==
    /\ call.op = "execute_action"
    /\ call.action = "kan"
    /\ call.seat = seat
    /\ result.message = "called kan"
    /\ nops <= MaxOps

Init ==
    \E use_red_fives \in BOOLEAN :
      \E order \in Orders(use_red_fives) :
        LET e == new_engine(use_red_fives, order)
        IN  /\ players = e.players
            /\ wall = e.wall
            /\ current_player = e.current_player
            /\ dealer = e.dealer
            /\ round_wind = e.round_wind
            /\ round_number = e.round_number
            /\ turn_number = e.turn_number
            /\ phase = e.phase
            /\ last_discard = e.last_discard
            /\ last_discard_player = e.last_discard_player
            /\ riichi_bets = e.riichi_bets
            /\ honba = e.honba
            /\ last_action_was_kan_draw = e.last_action_was_kan_draw
            /\ has_open_call = e.has_open_call
            /\ pending_chankan_tile = e.pending_chankan_tile
            /\ pending_chankan_from = e.pending_chankan_from
            /\ pending_chankan_responders = e.pending_chankan_responders
            /\ call = [op |-> "__init__", seat |-> NoSeat, action |-> "",
                       tile |-> <<>>, sequence |-> <<>>]
            /\ result = Result(TRUE, "")
            /\ passed = {}
            /\ nops = 0
            /\ changed = TRUE

\* The number of tiles in the four discard piles.
DiscardCount(e) ==
    Len(e.players[0].hand.discards) + Len(e.players[1].hand.discards)
        + Len(e.players[2].hand.discards) + Len(e.players[3].hand.discards)

Call(op, seat, req) ==
    [op |-> op, seat |-> seat, action |-> req.action, tile |-> req.tile,
     sequence |-> req.sequence]

NoRequest == [action |-> "", tile |-> <<>>, sequence |-> <<>>]

\* engine.execute_action(seat, action, tile=..., sequence=...)
ExecuteAction(seat, req) ==
    /\ Aside \/ Follows(seat) \/ MainLineDiscard(seat, req)
    /\ \E out \in {execute_action(Engine, seat, req.action, req)} :
           /\ SetEngine(out.e)
           /\ result' = out.r
           /\ passed' = IF out.e.last_discard # last_discard
                           \/ DiscardCount(out.e) # DiscardCount(Engine)
                        THEN {}
                        ELSE IF req.action = "pass" /\ out.r.success /\ last_discard # None
                        THEN passed \cup {seat}
                        ELSE passed
    /\ call' = Call("execute_action", seat, req)
    /\ nops' = IF MainLineDiscard(seat, req) THEN nops ELSE nops + 1

\* engine.get_valid_actions(seat)
GetValidActions(seat) ==
    /\ Aside \/ MainLineDraw(seat) \/ AfterKan(seat)
    /\ \E out \in {get_valid_actions(Engine, seat)} :
           /\ SetEngine(out.e)
           /\ result' = [actions |-> out.actions, raised |-> out.raised]
    /\ call' = Call("get_valid_actions", seat, NoRequest)
    /\ nops' = IF MainLineDraw(seat) THEN nops ELSE nops + 1
    /\ UNCHANGED passed

\* engine.get_game_state()
GetGameState ==
    /\ Aside
    /\ result' = get_game_state(Engine)
    /\ call' = Call("get_game_state", NoSeat, NoRequest)
    /\ nops' = nops + 1
    /\ UNCHANGED <<players, wall, current_player, dealer, round_wind, round_number,
                   turn_number, phase, last_discard, last_discard_player, riichi_bets,
                   honba, last_action_was_kan_draw, has_open_call, pending_chankan_tile,
                   pending_chankan_from, pending_chankan_responders>>
    /\ changed' = FALSE
    /\ UNCHANGED passed

\* engine.get_player_hand(seat)
GetPlayerHand(seat) ==
    /\ Aside
    /\ result' = get_player_hand(Engine, seat)
    /\ call' = Call("get_player_hand", seat, NoRequest)
    /\ nops' = nops + 1
    /\ UNCHANGED <<players, wall, current_player, dealer, round_wind, round_number,
                   turn_number, phase, last_discard, last_discard_player, riichi_bets,
                   honba, last_action_was_kan_draw, has_open_call, pending_chankan_tile,
                   pending_chankan_from, pending_chankan_responders>>
    /\ changed' = FALSE
    /\ UNCHANGED passed

\* engine.advance_turn()
AdvanceTurn ==
    /\ Aside
    /\ \E e \in {advance_turn(Engine)} : SetEngine(e)
    /\ result' = Result(TRUE, "")
    /\ call' = Call("advance_turn", NoSeat, NoRequest)
    /\ nops' = nops + 1
    /\ UNCHANGED passed

\* engine.start_new_round()
StartNewRound ==
    /\ Aside
    /\ \E order \in Orders(wall.use_red_fives) :
           \E e \in {start_new_round(Engine, order)} : SetEngine(e)
    /\ result' = Result(TRUE, "")
    /\ call' = Call("start_new_round", NoSeat, NoRequest)
    /\ nops' = nops + 1
    /\ passed' = {}

\* engine.advance_round()
AdvanceRound ==
    /\ Aside
    /\ \E out \in {advance_round(Engine)} :
           /\ SetEngine(out.e)
           /\ result' = [value |-> out.value]
    /\ call' = Call("advance_round", NoSeat, NoRequest)
    /\ nops' = nops + 1
    /\ UNCHANGED passed

\* engine.reset_game()
ResetGame ==
    /\ Aside
    /\ \E order \in Orders(wall.use_red_fives) :
           \E e \in {reset_game(Engine, order)} : SetEngine(e)
    /\ result' = Result(TRUE, "")
    /\ call' = Call("reset_game", NoSeat, NoRequest)
    /\ nops' = nops + 1
    /\ passed' = {}

Next ==
    \/ \E seat \in Seats : \E req \in Requests : ExecuteAction(seat, req)
    \/ \E seat \in Seats : GetValidActions(seat)
    \/ GetGameState
    \/ \E seat \in Seats : GetPlayerHand(seat)
    \/ AdvanceTurn
    \/ StartNewRound
    \/ AdvanceRound
    \/ ResetGame

Spec == Init /\ [][Next]_vars

(***************************************************************************)
(* The rounds of a game: the caller advances the round, up to MaxRounds    *)
(* times after construction, and may deal the new round after an advance.  *)
(* Here nops counts the calls of advance_round.                            *)
(***************************************************************************)
MaxRounds == 9

\* engine.advance_round()
RoundAdvance ==
    /\ nops < MaxRounds
    /\ \E out \in {advance_round(Engine)} :
           /\ SetEngine(out.e)
           /\ result' = [value |-> out.value]
    /\ call' = Call("advance_round", NoSeat, NoRequest)
    /\ nops' = nops + 1
    /\ UNCHANGED passed

\* engine.start_new_round() after an advance_round
RoundDeal ==
    /\ call.op = "advance_round"
    /\ \E order \in Orders(wall.use_red_fives) :
           \E e \in {start_new_round(Engine, order)} : SetEngine(e)
    /\ result' = Result(TRUE, "")
    /\ call' = Call("start_new_round", NoSeat, NoRequest)
    /\ passed' = {}
    /\ UNCHANGED nops

NextRounds == RoundAdvance \/ RoundDeal

SpecRounds == Init /\ [][NextRounds]_vars

\* The calls of the scoring functions: lists of up to MaxYaku yaku, fu
\* values on both sides of the mangan threshold, and honba up to MaxHonba.
MaxYaku == 3

MaxHonba == 2

MaxHan == 14

YakuKinds ==
    {Yaku("Riichi", 1), Yaku("Honitsu", 3), Yaku("Chinitsu", 6), Yaku("Dora", 4),
     Yaku("Dora", 13), Yaku("Kokushi Musou", 13), Yaku("Daisuushii", 26)}

YakuLists == UNION {[1..n -> YakuKinds] : n \in 0..MaxYaku}

FuValues == {20, 25, 30, 40, 60, 70, 110}

\* Scoring.calculate_score(yaku_list, is_dealer, is_tsumo, fu=..., honba=...);
\* the functions keep no state, so one call is made from each initial state.
ScoreCall ==
    /\ nops = 0
    /\ nops' = 1
    /\ \E yaku_list \in YakuLists, is_dealer \in BOOLEAN, is_tsumo \in BOOLEAN,
          fu \in FuValues \cup {NoFu}, h \in 0..MaxHonba :
           /\ call' = [op |-> "calculate_score", yaku_list |-> yaku_list,
                       is_dealer |-> is_dealer, is_tsumo |-> is_tsumo,
                       fu |-> fu, honba |-> h]
           /\ result' = calculate_score(yaku_list, is_dealer, is_tsumo, fu, h)
    /\ UNCHANGED <<players, wall, current_player, dealer, round_wind, round_number,
                   turn_number, phase, last_discard, last_discard_player,
                   riichi_bets, honba, last_action_was_kan_draw, has_open_call,
                   pending_chankan_tile, pending_chankan_from,
                   pending_chankan_responders, passed, changed>>

\* Scoring._calculate_base_points(fu, han)
BasePointsCall ==
    /\ nops = 0
    /\ nops' = 1
    /\ \E fu \in FuValues, han \in 0..MaxHan :
           /\ call' = [op |-> "_calculate_base_points", fu |-> fu, han |-> han]
           /\ result' = [raised |-> FALSE, value |-> calculate_base_points(fu, han)]
    /\ UNCHANGED <<players, wall, current_player, dealer, round_wind, round_number,
                   turn_number, phase, last_discard, last_discard_player,
                   riichi_bets, honba, last_action_was_kan_draw, has_open_call,
                   pending_chankan_tile, pending_chankan_from,
                   pending_chankan_responders, passed, changed>>

NextScoring == ScoreCall \/ BasePointsCall

SpecScoring == Init /\ [][NextScoring]_vars

(***************************************************************************)
(* The turns of a round: the current player discards the tile it drew, the *)
(* other seats pass on it in any order, the caller advances the turn, and  *)
(* the current player asks for its actions, until the wall is used up.     *)
(***************************************************************************)
\* engine.execute_action(current_player, "discard", tile=<the tile drawn>)
TurnDiscard ==
    /\ phase = PLAYING
    /\ total_tiles(players[current_player]) = 14
    /\ \E tile \in LastDrawnArg :
         LET req == [action |-> "discard", tile |-> tile, sequence |-> <<>>]
         IN  /\ \E out \in {execute_action(Engine, current_player, "discard", req)} :
                    /\ SetEngine(out.e)
                    /\ result' = out.r
             /\ call' = Call("execute_action", current_player, req)
    /\ passed' = {}
    /\ UNCHANGED nops

\* engine.execute_action(seat, "pass") by a seat that has not passed on the
\* discard yet.
TurnPass(seat) ==
    LET req == [action |-> "pass", tile |-> <<>>, sequence |-> <<>>]
    IN  /\ phase = PLAYING
        /\ last_discard # None
        /\ seat # last_discard_player
        /\ seat \notin passed
        /\ \E out \in {execute_action(Engine, seat, "pass", req)} :
               /\ SetEngine(out.e)
               /\ result' = out.r
               /\ passed' = IF out.r.success THEN passed \cup {seat} ELSE passed
        /\ call' = Call("execute_action", seat, req)
        /\ UNCHANGED nops

\* engine.advance_turn() once the three other seats have passed.
TurnAdvance ==
    /\ phase = PLAYING
    /\ last_discard # None
    /\ passed = Seats \ {last_discard_player}
    /\ call.op # "advance_turn"
    /\ \E e \in {advance_turn(Engine)} : SetEngine(e)
    /\ result' = Result(TRUE, "")
    /\ call' = Call("advance_turn", NoSeat, NoRequest)
    /\ UNCHANGED <<passed, nops>>

\* engine.get_valid_actions(current_player) after advance_turn.
TurnActions ==
    /\ phase = PLAYING
    /\ call.op = "advance_turn"
    /\ \E out \in {get_valid_actions(Engine, current_player)} :
           /\ SetEngine(out.e)
           /\ result' = [actions |-> out.actions, raised |-> out.raised]
    /\ call' = Call("get_valid_actions", current_player, NoRequest)
    /\ UNCHANGED <<passed, nops>>

NextTurns ==
    \/ TurnDiscard
    \/ \E seat \in Seats : TurnPass(seat)
    \/ TurnAdvance
    \/ TurnActions

SpecTurns == Init /\ [][NextTurns]_vars

(***************************************************************************)
(* The completeness test and the decomposition enumerators as functions:   *)
(* one call from each initial state, on a multiset of 5, 8 or 14 tiles of  *)
(* a few kinds beside 1, 2 or no declared melds.                           *)
(***************************************************************************)
MaxCopies == 3

\* The tile lists of 2 + 3m tiles, m in {1, 2, 4}: up to MaxCopies of each
\* kind and a single red five, kind after kind.
TileLists ==
    LET TileKinds ==
            <<Tile(MANZU, 3), Tile(MANZU, 4), Tile(MANZU, 5), RedTile(MANZU, 5),
              Tile(MANZU, 6), Tile(MANZU, 7), Tile(WIND, EAST)>>
        RECURSIVE ListOf(_, _)
        ListOf(c, k) ==
            IF k = 0 THEN <<>>
            ELSE ListOf(c, k - 1) \o [i \in 1..c[k] |-> TileKinds[k]]
        RECURSIVE Total(_, _)
        Total(c, k) == IF k = 0 THEN 0 ELSE c[k] + Total(c, k - 1)
    IN  {ListOf(c, Len(TileKinds)) :
            c \in {d \in [DOMAIN TileKinds -> 0..MaxCopies] :
                      /\ is_red(TileKinds[4]) /\ d[4] <= 1
                      /\ Total(d, Len(TileKinds)) \in {5, 8, 14}}}

\* The melds declared beside a list of 2 + 3m concealed tiles: pons of
\* south, west and north, 4 - m of them.
DeclaredMelds(tiles) ==
    [i \in 1..(4 - ((Len(tiles) - 2) \div 3)) |->
        Meld(<<Tile(WIND, i + 1), Tile(WIND, i + 1), Tile(WIND, i + 1)>>, TRUE, 1)]

\* Hand._is_complete_standard_hand(tiles, fixed_melds)
CompleteCall ==
    /\ nops = 0
    /\ nops' = 1
    /\ \E tiles \in TileLists :
           /\ call' = [op |-> "_is_complete_standard_hand", tiles |-> tiles,
                       melds |-> DeclaredMelds(tiles)]
           /\ result' = [value |-> is_complete_standard_hand(
                                       tiles, Len(DeclaredMelds(tiles)))]
    /\ UNCHANGED <<players, wall, current_player, dealer, round_wind, round_number,
                   turn_number, phase, last_discard, last_discard_player,
                   riichi_bets, honba, last_action_was_kan_draw, has_open_call,
                   pending_chankan_tile, pending_chankan_from,
                   pending_chankan_responders, passed, changed>>

\* YakuChecker._standard_decompositions(hand, winning_tile) on a hand that
\* holds the tiles beside its declared melds, and
\* Scoring._decompose_standard_hand(tiles) on the concealed tiles.
DecomposeCall ==
    /\ nops = 0
    /\ nops' = 1
    /\ \E tiles \in TileLists :
           /\ call' = [op |-> "_standard_decompositions", tiles |-> tiles,
                       melds |-> DeclaredMelds(tiles)]
           /\ result' =
                  [rules |-> standard_decompositions(
                                 [NewHand EXCEPT !.concealed_tiles = tiles,
                                                 !.melds = DeclaredMelds(tiles)],
                                 None),
                   scoring |-> decompose_standard_hand(tiles)]
    /\ UNCHANGED <<players, wall, current_player, dealer, round_wind, round_number,
                   turn_number, phase, last_discard, last_discard_player,
                   riichi_bets, honba, last_action_was_kan_draw, has_open_call,
                   pending_chankan_tile, pending_chankan_from,
                   pending_chankan_responders, passed, changed>>

NextDecompose == CompleteCall \/ DecomposeCall

SpecDecompose == Init /\ [][NextDecompose]_vars

(***************************************************************************)
(* Properties                                                              *)
(***************************************************************************)
\* Every tile of the engine: live wall, dead wall, and each seat's
\* concealed tiles, meld tiles and discards.
TileCount(e) ==
    Len(e.wall.tiles) + Len(e.wall.dead_wall) + DiscardCount(e)
        + total_tiles(e.players[0]) + total_tiles(e.players[1])
        + total_tiles(e.players[2]) + total_tiles(e.players[3])

\* len(concealed_tiles) + 3 * (number of melds)
Units(p) == Len(p.hand.concealed_tiles) + 3 * Len(p.hand.melds)

\* The step is a call of execute_action.
Executes == call'.op = "execute_action"

\* The messages of a pon, chii or open kan that was carried out.
CalledMessages == {"called pon", "called chii", "called kan"}

\* The step is a call of execute_action that carried out a pon, a chii or
\* an open kan on the discard.
Calls == Executes /\ last_discard # None /\ result'.message \in CalledMessages

\* C1: in every reachable state the live wall, the dead wall and every
\* seat's concealed tiles, meld tiles and discards hold 136 tiles together.
C1_TileConservation == TileCount(Engine) = WallSize

\* C2: in every reachable state every seat holds 13 or 14 tile units
\* (concealed tiles plus three per meld), only the current player holds 14,
\* and a discard is accepted only from a seat that held 14.
C2_HandSize ==
    /\ \A seat \in Seats : Units(players[seat]) \in {13, 14}
    /\ \A seat \in Seats : Units(players[seat]) = 14 => seat = current_player
    /\ (call.op = "execute_action" /\ call.action = "discard"
            /\ result.message = "Discarded")
           => Units(players[call.seat]) = 13

\* C3: an action name that get_valid_actions(seat) has just not listed is
\* rejected by execute_action(seat, name, params), whatever the params.
C3_LegalityEnforced ==
    [][(/\ call.op = "get_valid_actions"
        /\ ~result.raised
        /\ Executes
        /\ call'.seat = call.seat
        /\ ~Contains(result.actions, call'.action))
          => ~result'.success]_vars

\* C4: a call of execute_action that returns success = false, a handler's
\* exception turned into a message included, leaves the whole engine as it
\* was before the call.
C4_NoPartialApplication ==
    [][(Executes /\ ~result'.success) => Engine' = Engine]_vars

\* The current player holds 13 tiles while the wall has tiles: the state in
\* which get_valid_actions makes it draw.
MustDraw(seat) ==
    /\ seat = current_player
    /\ ~(pending_chankan_tile # None /\ seat = pending_chankan_from)
    /\ total_tiles(players[seat]) = 13
    /\ tiles_remaining(wall) > 0

C6_EndedIsTerminal ==
    [][(phase = ENDED /\ Executes)
          => /\ players' = players
             /\ wall' = wall
             /\ riichi_bets' = riichi_bets
             /\ honba' = honba]_vars

\* C7: a pon, chii or open kan that is carried out makes the caller the
\* current player and clears last_discard, and while last_discard is none
\* no pon, chii or open kan is carried out.
C7_CallTakesTheDiscard ==
    [][/\ Calls => current_player' = call'.seat /\ last_discard' = None
       /\ (Executes /\ last_discard = None) => result'.message \notin CalledMessages]_vars

\* C7 reached: a pon, a chii or an open kan has just been carried out.
C7_CallReached ==
    /\ call.op = "execute_action"
    /\ call.action \in {"pon", "chii", "kan"}
    /\ result.message \in CalledMessages
    /\ current_player = call.seat
    /\ last_discard = None
    /\ Len(players[call.seat].hand.melds) > 0

\* C8: a pon, chii or open kan is carried out only for a seat other than
\* the discarder; a chii only for the seat after the discarder, a pon only
\* for a seat holding two concealed copies of the discard, a kan only for a
\* seat holding three.
C8_CallLegality ==
    [][Calls =>
          /\ call'.seat # last_discard_player
          /\ call'.action = "chii" => call'.seat = (last_discard_player + 1) % 4
          /\ call'.action = "pon" =>
                 Count(players[call'.seat].hand.concealed_tiles, last_discard) >= 2
          /\ call'.action = "kan" =>
                 Count(players[call'.seat].hand.concealed_tiles, last_discard) >= 3]_vars

\* A seat other than the caller and the discarder that has not passed on
\* the open discard.
Waiting(seat) ==
    {s \in Seats : s # seat /\ s # last_discard_player /\ s \notin passed}

\* C9: no pon, kan or chii is carried out while another seat that has not
\* passed can ron the discard, and no chii while another seat that has not
\* passed can pon or kan it.
C9_CallPriority ==
    [][Calls =>
          /\ \A s \in Waiting(call'.seat) : ~can_call_ron(players[s], last_discard)
          /\ call'.action = "chii" =>
                 \A s \in Waiting(call'.seat) :
                     /\ ~can_call_pon(players[s], last_discard)
                     /\ ~can_call_kan(players[s], last_discard)]_vars

\* The current player holds an open pon of the tile named and a fourth copy
\* of it, and another seat can ron that tile.
AddedKanRobbable(seat, tile_str) ==
    /\ seat = current_player
    /\ last_discard = None
    /\ pending_chankan_tile = None
    /\ \E i \in DOMAIN players[seat].hand.melds :
          LET m == players[seat].hand.melds[i]
          IN  /\ meld_type(m) = "triplet"
              /\ m.is_open
              /\ TileStr(m.tiles[1]) = tile_str
              /\ Contains(players[seat].hand.concealed_tiles, m.tiles[1])
              /\ \E s \in Seats \ {seat} : can_call_ron(players[s], m.tiles[1])

\* C10: when the current player declares an added kan on a tile another
\* seat can ron, execute_action(kan) returns success with pending_chankan
\* and opens the chankan window for that tile.
C10_AddedKanOpensChankan ==
    [][(Executes /\ call'.action = "kan" /\ AddedKanRobbable(call'.seat, call'.tile))
          => /\ result'.success
             /\ result'.pending_chankan
             /\ pending_chankan_tile' # None]_vars

\* The seat holds a kan of the tile among its melds.
HoldsKan(p, tile) ==
    \E i \in DOMAIN p.hand.melds :
        Len(p.hand.melds[i].tiles) = 4 /\ p.hand.melds[i].tiles[1] = tile

Robbers(seat, tile_str) ==
    {s \in Seats \ {seat} : can_call_ron(players[s], FindTile(players[seat], tile_str))}

WinningTile(seat, action) ==
    IF action = "tsumo"
    THEN IF players[seat].hand.last_drawn_tile # None
         THEN players[seat].hand.last_drawn_tile
         ELSE players[seat].hand.concealed_tiles[Len(players[seat].hand.concealed_tiles)]
    ELSE IF pending_chankan_tile # None /\ seat \in pending_chankan_responders
    THEN pending_chankan_tile
    ELSE last_discard

\* The win the seat asks for passes the first test of its handler
\* (can_tsumo, can_call_ron), so that its yaku are looked at next.
ReachesYaku(seat, action) ==
    \/ action = "tsumo" /\ can_tsumo(players[seat])
    \/ /\ action = "ron"
       /\ WinningTile(seat, action) # None
       /\ can_call_ron(players[seat], WinningTile(seat, action))

\* The scores of the four seats.
Scores == [i \in Seats |-> players[i].score]

TotalScore(sc) == sc[0] + sc[1] + sc[2] + sc[3]

\* What a win by `winner` paid by the seats `payers` leaves behind: the
\* round ended, the pool emptied into the winner's score together with the
\* payments, nobody else's score changed, honba raised for a dealer's win
\* and reset otherwise.
WinEffects(winner, payers) ==
    /\ phase' = ENDED
    /\ riichi_bets' = 0
    /\ TotalScore(Scores') = TotalScore(Scores) + 1000 * riichi_bets
    /\ Scores'[winner] >= Scores[winner] + 1000 * riichi_bets
    /\ \A i \in Seats \ {winner} :
           IF i \in payers THEN Scores'[i] <= Scores[i] ELSE Scores'[i] = Scores[i]
    /\ honba' = IF players[winner].is_dealer THEN honba + 1 ELSE 0

\* The current player holds fourteen concealed tiles that form a complete
\* hand, closed and self-drawn: a win with the yaku Menzen Tsumo.
CompleteByTsumo(seat) ==
    /\ phase = PLAYING
    /\ seat = current_player
    /\ pending_chankan_tile = None
    /\ is_complete_hand(players[seat].hand.concealed_tiles)
    /\ check_menzen_tsumo(players[seat].hand, TRUE)

TenpaiSeats(ps) == {i \in Seats : is_tenpai(ps[i].hand)}

\* C15: a call of execute_action that leaves the live wall empty without a
\* win ends the round as a draw: phase Ended, game_ended and the tenpai seats
\* reported, honba one higher, and with k tenpai seats, 0 < k < 4, every
\* tenpai seat 3000/k richer and every other seat 3000/(4-k) poorer; with
\* k = 0 or k = 4 no score changed.
C15_DrawSettlement ==
    [][(/\ Executes
        /\ tiles_remaining(wall') = 0
        /\ result'.message \notin {"won by tsumo!", "won by ron!"})
          => LET tenpai == TenpaiSeats(players')
                 k == Cardinality(tenpai)
             IN  /\ phase' = ENDED
                 /\ result'.game_ended
                 /\ result'.tenpai_players = tenpai
                 /\ honba' = honba + 1
                 /\ \A i \in Seats :
                        Scores'[i] = Scores[i]
                            + (IF k = 0 \/ k = 4 THEN 0
                               ELSE IF i \in tenpai THEN 3000 \div k
                               ELSE -(3000 \div (4 - k)))]_vars

OpenMelds(h) == {i \in DOMAIN h.melds : h.melds[i].is_open}

\* C17: a seat in riichi never gains an open meld while it stays in riichi
\* (no chii, pon, open kan or added kan of its own succeeds), and
\* can_upgrade_pon_to_kan lists nothing for it.
C17_RiichiLock ==
    [][\A seat \in Seats :
          players[seat].hand.is_riichi
              => /\ can_upgrade_pon_to_kan(Engine, seat) = {}
                 /\ players'[seat].hand.is_riichi
                      => Cardinality(OpenMelds(players'[seat].hand))
                           <= Cardinality(OpenMelds(players[seat].hand))
                 /\ (Executes /\ call'.seat = seat
                        /\ call'.action \in {"chii", "pon", "kan"}
                        /\ last_discard # None)
                      => ~result'.success]_vars

\* The tiles the hand waited on before it drew: the winning tiles of the
\* concealed tiles without the tile drawn last.
WaitsBeforeKan(h) ==
    get_winning_tiles_with_fixed_melds(
        IF h.last_drawn_tile # None THEN Remove(h.concealed_tiles, h.last_drawn_tile)
        ELSE h.concealed_tiles,
        Len(h.melds))

\* The tiles the hand waits on once the four copies are set aside as a kan.
WaitsAfterKan(h, kan_tile) ==
    get_winning_tiles_with_fixed_melds(
        RemoveN(h.concealed_tiles, kan_tile, 4), Len(h.melds) + 1)

\* C18: when the current player is in riichi and names a tile it holds four
\* times concealed, its kan is accepted if the hand waits on the same tiles
\* after the kan as before it, and rejected if the two sets differ.
C18_KanWaitPreservation ==
    [][(Executes /\ call'.action = "kan")
          => LET seat == call'.seat
                 h == players[seat].hand
                 kan_tile == FindTile(players[seat], call'.tile)
             IN  (/\ seat = current_player
                  /\ phase = PLAYING
                  /\ h.is_riichi
                  /\ kan_tile # None
                  /\ Count(h.concealed_tiles, kan_tile) = 4)
                     => (result'.success
                            <=> WaitsBeforeKan(h) = WaitsAfterKan(h, kan_tile))]_vars

\* The seat's own discard pile holds one of the tiles its hand waits on.
\* (A hand waits on a tile only with 13 concealed tiles, and on tiles of
\* AllPossibleTiles.)
OwnDiscardFuriten(p) ==
    /\ Len(p.hand.concealed_tiles) = 13
    /\ \E tile \in ToSet(p.hand.discards) \cap AllPossibleTiles :
           is_complete_hand(Append(p.hand.concealed_tiles, tile))

\* The step leaves the tiles the seat waits on as they were.
SameWaits(seat) ==
    \/ players'[seat].hand.concealed_tiles = players[seat].hand.concealed_tiles
    \/ get_winning_tiles(players'[seat].hand) = get_winning_tiles(players[seat].hand)

\* C19: a seat whose own discard pile holds one of its winning tiles can ron
\* on no tile and every ron it calls is refused; the acts of other seats
\* leave it so while its winning tiles are the same; and furiten_state
\* rises only when the seat's own pile holds one of its winning tiles.
C19_PermanentFuriten ==
    [][\A seat \in Seats :
          LET p == players[seat]
              after == players'[seat]
          IN  /\ OwnDiscardFuriten(p)
                   => /\ p.hand.furiten_state
                      /\ \A tile \in AllPossibleTiles : ~can_call_ron(p, tile)
                      /\ (Executes /\ call'.seat = seat /\ call'.action = "ron")
                           => /\ execute_ron(Engine, seat).r = Result(FALSE, "Cannot call ron")
                              /\ result'.message \in {"Cannot call ron", "Game drawn - wall empty"}
                      /\ (/\ call'.op \in {"execute_action", "get_valid_actions"}
                          /\ call'.seat # seat
                          /\ SameWaits(seat))
                           => /\ OwnDiscardFuriten(after)
                              /\ after.hand.furiten_state
              /\ (after.hand.furiten_state /\ ~p.hand.furiten_state)
                   => OwnDiscardFuriten(after)]_vars

\* C19 witness: a seat in furiten by its own discard has called ron on a
\* winning tile another seat discarded and was refused.
C19_FuritenRonRefused ==
    /\ call.op = "execute_action"
    /\ call.action = "ron"
    /\ call.seat \in Seats
    /\ OwnDiscardFuriten(players[call.seat])
    /\ last_discard # None
    /\ last_discard_player # call.seat
    /\ last_discard \in get_winning_tiles(players[call.seat].hand)
    /\ ~result.success
    /\ result.message = "Cannot call ron"

\* The seat passes, in this step, on a tile it could have won on.
PassesOnWin(seat) ==
    /\ Executes
    /\ call'.seat = seat
    /\ call'.action = "pass"
    /\ \/ /\ pending_chankan_tile # None
          /\ seat \in pending_chankan_responders
          /\ can_call_ron(players[seat], pending_chankan_tile)
       \/ /\ pending_chankan_tile = None
          /\ last_discard # None
          /\ seat # current_player
          /\ can_call_ron(players[seat], last_discard)

\* The step deals the hands anew.
DealsAnew == call'.op \in {"start_new_round", "reset_game", "advance_round"}

\* The seat draws a tile from the wall in this step (on its turn, or as the
\* replacement after a kan).
DrawsTile(seat) ==
    /\ Len(wall'.tiles) < Len(wall.tiles)
    /\ players'[seat].hand.last_drawn_tile = Head(wall.tiles)
    /\ Count(players'[seat].hand.concealed_tiles, Head(wall.tiles))
         > Count(players[seat].hand.concealed_tiles, Head(wall.tiles))

\* C20: a seat that passes on a tile it could have won on has temp_furiten
\* set and can ron on no tile; within a deal temp_furiten is cleared only
\* by a step in which that seat draws a tile.
C20_TempFuritenScope ==
    [][\A seat \in Seats :
          /\ PassesOnWin(seat)
               => /\ players'[seat].hand.temp_furiten
                  /\ \A tile \in AllPossibleTiles : ~can_call_ron(players'[seat], tile)
          /\ (players[seat].hand.temp_furiten /\ ~players'[seat].hand.temp_furiten
                 /\ ~DealsAnew)
               => DrawsTile(seat)]_vars

\* The step is a successful chii, pon or kan of some seat.
SuccessfulCall ==
    /\ Executes
    /\ call'.action \in {"chii", "pon", "kan"}
    /\ result'.success
    /\ result'.message # "Game drawn - wall empty"

\* The lifecycle of ippatsu_eligible after the declaration: the declarer's
\* next discard and every successful call end it, and it is never set for a
\* seat that is not in riichi.
IppatsuEnds ==
    /\ \A seat \in Seats :
          /\ players[seat].hand.ippatsu_eligible => players[seat].hand.is_riichi
          /\ (/\ Executes
              /\ call'.seat = seat
              /\ call'.action = "discard"
              /\ players[seat].hand.is_riichi
              /\ Len(players'[seat].hand.discards) > Len(players[seat].hand.discards))
                => ~players'[seat].hand.ippatsu_eligible
    /\ SuccessfulCall => \A seat \in Seats : ~players'[seat].hand.ippatsu_eligible

\* C21: the step in which a seat enters riichi makes the declaration
\* discard and leaves ippatsu_eligible true; the declarer's next discard
\* and any seat's successful chii, pon or kan leave it false; it is never
\* true for a seat that is not in riichi.
C21_IppatsuLifecycle ==
    [][/\ IppatsuEnds
       /\ \A seat \in Seats :
             (players'[seat].hand.is_riichi /\ ~players[seat].hand.is_riichi)
                => /\ players'[seat].hand.ippatsu_eligible
                   /\ Len(players'[seat].hand.discards)
                        = Len(players[seat].hand.discards) + 1
                   /\ last_discard' = players'[seat].hand.discards[Len(players'[seat].hand.discards)]]_vars

\* The seat holds a four-tile meld of the tile, open or closed as asked.
HoldsKanMeld(p, tile, is_open) ==
    \E i \in DOMAIN p.hand.melds :
        /\ p.hand.melds[i].tiles = <<tile, tile, tile, tile>>
        /\ p.hand.melds[i].is_open = is_open

\* The three shapes of a kan, for a seat that is not in riichi in a round
\* that is being played with no chankan pending.
KanPlayable(seat) ==
    /\ phase = PLAYING
    /\ pending_chankan_tile = None
    /\ ~players[seat].hand.is_riichi

OpenKanShape(seat) ==
    /\ KanPlayable(seat)
    /\ last_discard # None
    /\ seat # last_discard_player
    /\ Count(players[seat].hand.concealed_tiles, last_discard) >= 3

ClosedKanShape(seat, tile) ==
    /\ KanPlayable(seat)
    /\ seat = current_player
    /\ last_discard = None
    /\ tile # None
    /\ Count(players[seat].hand.concealed_tiles, tile) = 4

AddedKanShape(seat, tile) ==
    /\ KanPlayable(seat)
    /\ seat = current_player
    /\ last_discard = None
    /\ tile # None
    /\ \E i \in DOMAIN players[seat].hand.melds :
          /\ players[seat].hand.melds[i].tiles = <<tile, tile, tile>>
          /\ players[seat].hand.melds[i].is_open

\* C22: through execute_action a kan succeeds as an open kan, as a closed
\* kan and as an added kan; the seat then holds a four-tile meld of the
\* tile, open for the open and the added kan and closed for the closed kan
\* (an added kan may first wait for the chankan answers), and 'kan' was
\* among the seat's valid actions before.
C22_KanShapes ==
    [][(Executes /\ call'.action = "kan")
          => LET seat == call'.seat
                 tile == FindTile(players[seat], call'.tile)
                 listed == Contains(get_valid_actions(Engine, seat).actions, "kan")
             IN  /\ OpenKanShape(seat)
                      => /\ result'.success
                         /\ HoldsKanMeld(players'[seat], last_discard, TRUE)
                         /\ listed
                 /\ ClosedKanShape(seat, tile)
                      => /\ result'.success
                         /\ HoldsKanMeld(players'[seat], tile, FALSE)
                         /\ listed
                 /\ AddedKanShape(seat, tile)
                      => /\ result'.success
                         /\ \/ HoldsKanMeld(players'[seat], tile, TRUE)
                            \/ pending_chankan_tile' = tile
                         /\ listed]_vars

\* The open kan alone, as C22 states it.
OpenKanSucceeds ==
    [][(Executes /\ call'.action = "kan" /\ OpenKanShape(call'.seat))
          => /\ result'.success
             /\ HoldsKanMeld(players'[call'.seat], last_discard, TRUE)
             /\ Contains(get_valid_actions(Engine, call'.seat).actions, "kan")]_vars

\* The number of four-tile melds of a seat, and of all seats.
KanCount(p) == Cardinality({i \in DOMAIN p.hand.melds : Len(p.hand.melds[i].tiles) = 4})

KansCompleted(ps) == KanCount(ps[0]) + KanCount(ps[1]) + KanCount(ps[2]) + KanCount(ps[3])

Min(a, b) == IF a < b THEN a ELSE b

\* The step completes a kan of the seat.
CompletesKan(seat) == KanCount(players'[seat]) = KanCount(players[seat]) + 1

\* C23: the indicators number min(4, 1 + kans completed this round); the
\* step that completes a kan gives the caller one replacement tile from the
\* dead wall, the live wall keeping its count, and sets
\* last_action_was_kan_draw, which stays set until the caller discards or
\* a seat calls.
C23_KanDoraAndReplacement ==
    [][/\ Len(wall.dora_indicators) = Min(MaxDoraIndicators, 1 + KansCompleted(players))
       /\ \A seat \in Seats :
             CompletesKan(seat)
                => /\ Len(wall'.dora_indicators)
                        = Min(MaxDoraIndicators, Len(wall.dora_indicators) + 1)
                   /\ Len(wall'.tiles) = Len(wall.tiles)
                   /\ Len(wall'.dead_wall) = Len(wall.dead_wall) - 1
                   /\ players'[seat].hand.last_drawn_tile
                        \in {wall.dead_wall[i] : i \in DOMAIN wall.dead_wall}
                   /\ last_action_was_kan_draw'
       /\ (last_action_was_kan_draw /\ ~last_action_was_kan_draw')
             => \/ call'.op \in {"start_new_round", "reset_game", "advance_round"}
                \/ Executes /\ call'.action \in {"chii", "pon", "kan"}
                \/ Executes /\ call'.action = "discard" /\ call'.seat = current_player]_vars

\* What the code keeps of C23: one more indicator up to four, one
\* replacement tile for the caller, and the flag.
KanDoraAndDraw ==
    [][/\ Len(wall.dora_indicators) = Min(MaxDoraIndicators, 1 + KansCompleted(players))
       /\ \A seat \in Seats :
             (CompletesKan(seat) /\ tiles_remaining(wall) > 0)
                => /\ Len(wall'.dora_indicators)
                        = Min(MaxDoraIndicators, Len(wall.dora_indicators) + 1)
                   /\ players'[seat].hand.last_drawn_tile = Head(wall.tiles)
                   /\ Len(wall'.tiles) = Len(wall.tiles) - 1
                   /\ wall'.dead_wall = wall.dead_wall
                   /\ last_action_was_kan_draw'
       /\ (last_action_was_kan_draw /\ ~last_action_was_kan_draw')
             => \/ call'.op \in {"start_new_round", "reset_game", "advance_round"}
                \/ Executes /\ call'.action \in {"chii", "pon", "kan"}
                \/ Executes /\ call'.action = "discard" /\ call'.seat = current_player]_vars

\* C24: Wall.draw_tile is never called on an empty live wall: no draw of
\* the round has raised "Wall is empty".
C24_NoDrawFromEmptyWall == wall.empty_draws = 0

\* C24 witness: with the live wall empty, the current player holding 13
\* tiles has asked for its valid actions, and no draw was attempted.
C24_ForcedDrawSkipped ==
    /\ tiles_remaining(wall) = 0
    /\ call.op = "get_valid_actions"
    /\ call.seat = current_player
    /\ total_tiles(players[current_player]) = 13
    /\ result.actions = <<>>
    /\ wall.empty_draws = 0

\* The engine as a round starts.
RoundStarted(e) ==
    /\ e.phase = PLAYING
    /\ \A seat \in Seats :
          /\ Len(e.players[seat].hand.concealed_tiles) = IF seat = e.dealer THEN 14 ELSE 13
          /\ e.players[seat].hand.melds = <<>>
          /\ e.players[seat].hand.discards = <<>>
    /\ Len(e.wall.tiles) = WallSize - DeadWallSize - 53
    /\ Len(e.wall.dead_wall) = DeadWallSize
    /\ Len(e.wall.dora_indicators) = 1
    /\ e.current_player = e.dealer
    /\ e.turn_number = 0
    /\ e.last_discard = None
    /\ e.pending_chankan_tile = None
    /\ e.pending_chankan_from = NoSeat
    /\ e.pending_chankan_responders = {}

\* C25: the engine is as RoundStarted says after construction and after
\* every start_new_round, and start_new_round leaves the scores, honba,
\* the riichi pool, the dealer, the round wind and the round number alone.
C25_RoundStart ==
    [][/\ call.op = "__init__" => RoundStarted(Engine)
       /\ call'.op = "start_new_round"
             => /\ RoundStarted(Engine')
                /\ \A seat \in Seats : players'[seat].score = players[seat].score
                /\ honba' = honba
                /\ riichi_bets' = riichi_bets
                /\ dealer' = dealer
                /\ round_wind' = round_wind
                /\ round_number' = round_number]_vars

\* C25 witness: a round was started with a seat other than 0 as dealer,
\* or with points in the riichi pool.
C25_RoundRestarted ==
    /\ call.op = "start_new_round"
    /\ RoundStarted(Engine)
    /\ dealer # 0 \/ riichi_bets > 0

CompletingTiles(h) ==
    {tile \in AllPossibleTiles :
        LET tiles == Append(h.concealed_tiles, tile)
        IN  \/ is_complete_standard_hand(tiles, Len(h.melds))
            \/ h.melds = <<>> /\ (is_chiitoitsu(tiles) \/ is_kokushi(tiles))}

\* C27: for every hand at rest (k declared melds, 13 - 3k concealed tiles)
\* get_winning_tiles is the set of the tiles that complete the hand, and
\* is_tenpai holds exactly when that set is not empty.
C27_WinningTileDuality ==
    \A seat \in Seats :
        LET h == players[seat].hand
        IN  (Len(h.melds) <= 4 /\ Len(h.concealed_tiles) = 13 - 3 * Len(h.melds))
               => /\ get_winning_tiles(h) = CompletingTiles(h)
                  /\ is_tenpai(h) <=> CompletingTiles(h) # {}

\* The red five of a tile's suit for a rank-5 suited tile, the tile itself
\* for any other.
RedVariant(t) ==
    IF is_number(t) /\ value_of(t) = 5 THEN RedTile(suit_of(t), 5) ELSE t

\* The player with the i-th concealed tile replaced by its red variant.
WithRedVariant(p, i) ==
    [p EXCEPT !.hand.concealed_tiles[i] = RedVariant(@)]

\* C28: the results of can_call_pon, can_call_kan, can_call_chii,
\* can_call_ron and get_winning_tiles are unchanged when a rank-5 suited
\* tile of the hand or the discard is replaced by its red variant.
C28_RedFivesMatchAlike ==
    \A seat \in Seats :
        LET p == players[seat]
        IN  \A i \in DOMAIN p.hand.concealed_tiles :
                LET q == WithRedVariant(p, i)
                IN  /\ get_winning_tiles(q.hand) = get_winning_tiles(p.hand)
                    /\ last_discard # None =>
                           \A d \in {last_discard, RedVariant(last_discard)} :
                               /\ can_call_pon(q, d) = can_call_pon(p, last_discard)
                               /\ can_call_kan(q, d) = can_call_kan(p, last_discard)
                               /\ can_call_chii(q, d, TRUE) = can_call_chii(p, last_discard, TRUE)
                               /\ can_call_ron(q, d) = can_call_ron(p, last_discard)
                               /\ can_call_pon(p, d) = can_call_pon(p, last_discard)
                               /\ can_call_kan(p, d) = can_call_kan(p, last_discard)
                               /\ can_call_chii(p, d, TRUE) = can_call_chii(p, last_discard, TRUE)
                               /\ can_call_ron(p, d) = can_call_ron(p, last_discard)

\* The base points of fu and han as the limit table gives them.
TableBase(fu, han) ==
    IF han <= 4 /\ fu * (2 ^ (han + 2)) < 2000 THEN fu * (2 ^ (han + 2))
    ELSE IF han <= 5 THEN 2000
    ELSE IF han <= 7 THEN 3000
    ELSE IF han <= 10 THEN 4000
    ELSE IF han <= 12 THEN 6000
    ELSE 8000

\* The yaku of a list that are yakuman: 13 han or more and not Dora.
YakumanYaku(yaku_list) ==
    {i \in DOMAIN yaku_list : yaku_list[i].name # "Dora" /\ yaku_list[i].han >= 13}

RECURSIVE SumOver(_, _)
SumOver(f, S) ==
    IF S = {} THEN 0
    ELSE LET x == CHOOSE y \in S : TRUE IN f[x] + SumOver(f, S \ {x})

\* The fu a call of calculate_score scores with.
FuOf(c) == IF c.fu = NoFu THEN DefaultFu ELSE c.fu

\* C29: for every fu and total han >= 1 without a yakuman yaku the base is
\* fu * 2^(han+2) when han <= 4 and that is below 2000, else 2000 up to 5
\* han, 3000 for 6-7, 4000 for 8-10, 6000 for 11-12 and 8000 from 13 han;
\* with a yakuman yaku the base is 8000 times the sum of han div 13 over the
\* yaku of 13 han or more other than Dora, whatever the other han.
C29_BasePoints ==
    /\ (call.op = "_calculate_base_points" /\ call.han >= 1)
           => result.value = TableBase(call.fu, call.han)
    /\ (call.op = "calculate_score" /\ total_han(call.yaku_list) >= 1)
           => /\ ~result.raised
              /\ result.base_points =
                     IF YakumanYaku(call.yaku_list) = {}
                     THEN TableBase(FuOf(call), total_han(call.yaku_list))
                     ELSE 8000 * SumOver([i \in DOMAIN call.yaku_list |->
                                              call.yaku_list[i].han \div 13],
                                         YakumanYaku(call.yaku_list))

\* C29 witness: a double yakuman scored with Dora and riichi beside it.
C29_DoubleYakumanScored ==
    /\ call.op = "calculate_score"
    /\ call.yaku_list = <<Yaku("Daisuushii", 26), Yaku("Dora", 4), Yaku("Riichi", 1)>>
    /\ result.base_points = 16000

\* The least multiple of 100 that is not below x.
CeilingHundred(x) == IF x % 100 = 0 THEN x ELSE x + (100 - (x % 100))

TsumoScored(by_dealer) ==
    /\ call.op = "calculate_score"
    /\ ~result.raised
    /\ call.is_tsumo
    /\ call.is_dealer = by_dealer

AdvancesAfterPasses(s) ==
    /\ call'.op = "advance_turn"
    /\ last_discard # None
    /\ last_discard_player = s
    /\ Len(players[s].hand.discards) > 0
    /\ passed = Seats \ {s}

\* C32: after a discard by seat s on which the three other seats have
\* passed, advance_turn makes (s+1) mod 4 the current player, gives that
\* seat exactly one tile from the live wall if it is not empty, and adds 1
\* to turn_number; the turn never stays with s.
C32_TurnProgress ==
    [][\A s \in Seats :
          AdvancesAfterPasses(s) =>
              LET n == (s + 1) % 4
              IN  /\ current_player' = n
                  /\ current_player' # s
                  /\ turn_number' = turn_number + 1
                  /\ IF tiles_remaining(wall) > 0
                     THEN /\ wall'.tiles = Tail(wall.tiles)
                          /\ players'[n].hand.concealed_tiles =
                                 Append(players[n].hand.concealed_tiles, Head(wall.tiles))
                     ELSE /\ wall' = wall
                          /\ players'[n] = players[n]]_vars

\* The points in the game: the four scores and the riichi deposits.
PointsInGame == TotalScore(Scores) + RiichiCost * riichi_bets

\* C33: in every reachable state the four scores plus 1000 points for each
\* riichi deposit add up to 100000.
C33_PointConservation == PointsInGame = 4 * StartingScore

\* C33 witness: a seat has paid its riichi deposit and the drawn round has
\* been settled with tenpai payments.
C33_DepositAndDrawSettled ==
    /\ phase = ENDED
    /\ riichi_bets > 0
    /\ \E i \in Seats : players[i].score > StartingScore
    /\ \E i \in Seats : players[i].score < StartingScore - RiichiCost

\* A hand of 14 tile-units that is complete: the concealed tiles split into
\* a pair and the melds the declared melds leave to form, or, with no
\* declared meld, are seven pairs or thirteen orphans.
CompleteHand(h) ==
    \/ is_complete_standard_hand(h.concealed_tiles, Len(h.melds))
    \/ h.melds = <<>> /\ (is_chiitoitsu(h.concealed_tiles) \/ is_kokushi(h.concealed_tiles))

\* C34: for the current player holding 14 tile-units after a draw,
\* can_tsumo() is true exactly when its tiles form a complete hand, and no
\* tsumo of a complete hand is answered with "Cannot tsumo".
C34_TsumoAvailability ==
    LET p == players[current_player]
    IN  (phase = PLAYING /\ total_tiles(p) = 14) =>
            /\ can_tsumo(p) <=> CompleteHand(p.hand)
            /\ CompleteHand(p.hand) =>
                   execute_tsumo(Engine, current_player).r.message # "Cannot tsumo"

\* The tiles of a hand whose discard leaves a tenpai hand.
RiichiDiscards(h) ==
    {tile \in ToSet(h.concealed_tiles) : is_tenpai(remove_tile(h, tile))}

\* C35: for the current player holding 14 concealed tiles with no open
\* meld, not in riichi and with at least 1000 points, can_declare_riichi is
\* true exactly when some tile can be discarded leaving a tenpai hand, and
\* declaring riichi with such a tile succeeds.
C35_RiichiAvailability ==
    LET p == players[current_player]
    IN  (/\ phase = PLAYING
         /\ Len(p.hand.concealed_tiles) = 14
         /\ is_closed(p.hand)
         /\ ~p.hand.is_riichi
         /\ p.score >= RiichiCost) =>
            /\ can_declare_riichi(Engine, current_player) <=> RiichiDiscards(p.hand) # {}
            /\ \A tile \in RiichiDiscards(p.hand) :
                   execute_riichi(Engine, current_player, TileStr(tile)).r.success

\* Three tiles of consecutive ranks in one numbered suit.
IsRun(tiles) ==
    /\ Len(tiles) = 3
    /\ \A i \in 1..3 : is_number(tiles[i]) /\ suit_of(tiles[i]) = suit_of(tiles[1])
    /\ \E v \in 1..7 : {value_of(tiles[i]) : i \in 1..3} = {v, v + 1, v + 2}

\* The step is an execute_action(seat, "chii") that adds a meld to the seat.
ChiiDone ==
    /\ Executes
    /\ call'.action = "chii"
    /\ Len(players'[call'.seat].hand.melds) > Len(players[call'.seat].hand.melds)

\* C36: every successful chii removes exactly two tiles from the caller's
\* concealed hand and adds one open meld made of last_discard and those two
\* tiles, three consecutive ranks of one numbered suit; a chii whose named
\* tiles do not form such a run with the discard is rejected.
C36_ChiiMeldValidity ==
    [][/\ ChiiDone =>
             LET h == players[call'.seat].hand
                 g == players'[call'.seat].hand
                 m == g.melds[Len(g.melds)]
             IN  /\ Len(g.melds) = Len(h.melds) + 1
                 /\ Len(g.concealed_tiles) = Len(h.concealed_tiles) - 2
                 /\ m.is_open
                 /\ IsRun(m.tiles)
                 /\ \A t \in ToSet(m.tiles) \cup ToSet(h.concealed_tiles) :
                        Count(m.tiles, t) =
                            Count(h.concealed_tiles, t) - Count(g.concealed_tiles, t)
                                + (IF t = last_discard THEN 1 ELSE 0)
       /\ (/\ Executes
           /\ call'.action = "chii"
           /\ last_discard # None
           /\ ~IsRun(sequence_tiles(players[call'.seat], call'.sequence)
                         \o <<last_discard>>))
             => /\ players' = players
                /\ last_discard' = last_discard]_vars

\* The seat holds a meld of four tiles.
HoldsAnyKan(p) == \E i \in DOMAIN p.hand.melds : Len(p.hand.melds[i].tiles) = 4

\* C37: after a kan with its replacement draw, and on every later turn of
\* a seat that holds a kan meld, get_valid_actions for that seat as current
\* player lists "discard" exactly when the seat holds 14 tile-units with
\* each kan counted as 3, and never lists nothing while the round is being
\* played and no chankan is pending.
C37_NoStuckKanCaller ==
    [][(/\ call'.op = "get_valid_actions"
        /\ call'.seat = current_player
        /\ HoldsAnyKan(players[current_player])
        /\ phase = PLAYING
        /\ pending_chankan_tile = None)
          => /\ ~result'.raised
             /\ Contains(result'.actions, "discard")
                    <=> Units(players'[current_player]) = 14
             /\ (Units(players'[current_player]) = 14 \/ tiles_remaining(wall) > 0)
                    => result'.actions # <<>>]_vars

\* C38: is_game_over() is true only if some seat's score is below 0 or the
\* South round has been completed: it is false after construction and turns
\* true only with a score below 0 or in a call of advance_round that returns
\* true, so it is false during the whole South round.
C38_GameOverSignal ==
    [][(/\ ~is_game_over(Engine)
        /\ ~(call'.op = "advance_round" /\ result'.value)
        /\ \A i \in Seats : players'[i].score >= 0)
          => ~is_game_over(Engine)']_vars

\* C39: in every reachable state exactly one player has is_dealer set, it
\* is players[dealer], its seat wind is East and the seats after it are
\* South, West and North; reset_game restores dealer 0, all scores 25000,
\* honba 0 and riichi_bets 0.
C39_DealerSeatWinds ==
    /\ \A i \in Seats :
           /\ players[i].is_dealer <=> i = dealer
           /\ players[i].seat_wind = SeatWinds[((i - dealer) % 4) + 1]
    /\ call.op = "reset_game" =>
           /\ dealer = 0
           /\ \A i \in Seats : players[i].score = StartingScore
           /\ honba = 0
           /\ riichi_bets = 0

\* The kind of a tile: its suit and rank (or honor), red or not.
Kind(t) == t % 100

\* Three tiles that are a meld: one kind three times, or a run.
IsMeld(a, b, c) ==
    \/ Kind(a) = Kind(b) /\ Kind(b) = Kind(c)
    \/ IsRun(<<a, b, c>>)

\* The list without the elements at the given positions.
Without(s, positions) ==
    LET keep == {i \in DOMAIN s : i \notin positions}
    IN  [k \in 1..Cardinality(keep) |->
            s[CHOOSE i \in keep : Cardinality({j \in keep : j <= i}) = k]]

\* The tiles can be split into m melds: the first tile is in a meld with
\* two of the others, and the rest splits into m - 1 melds.
RECURSIVE SplitsIntoMelds(_, _)
SplitsIntoMelds(tiles, m) ==
    IF m = 0 THEN tiles = <<>>
    ELSE /\ Len(tiles) = 3 * m
         /\ \E j, k \in 2..Len(tiles) :
                /\ j < k
                /\ IsMeld(tiles[1], tiles[j], tiles[k])
                /\ SplitsIntoMelds(Without(tiles, {1, j, k}), m - 1)

\* The tiles can be split into one pair and m melds.
SplitsIntoHand(tiles, m) ==
    /\ Len(tiles) = 2 + 3 * m
    /\ \E i, j \in DOMAIN tiles :
           /\ i < j
           /\ Kind(tiles[i]) = Kind(tiles[j])
           /\ SplitsIntoMelds(Without(tiles, {i, j}), m)

\* The tiles of a list of melds, one after the other.
RECURSIVE Flatten(_)
Flatten(melds) == IF melds = <<>> THEN <<>> ELSE Head(melds) \o Flatten(Tail(melds))

\* The pair and the melds of the decomposition are melds and hold every
\* tile of `tiles` exactly once.
Reproduces(d, tiles) ==
    LET used == <<d.pair_tile, d.pair_tile>> \o Flatten(d.melds)
    IN  /\ \A t \in ToSet(used) \cup ToSet(tiles) : Count(used, t) = Count(tiles, t)
        /\ \A i \in DOMAIN d.melds :
               /\ Len(d.melds[i]) = 3
               /\ IsMeld(d.melds[i][1], d.melds[i][2], d.melds[i][3])

\* C40: the completeness test accepts a multiset of 2 + 3m tiles exactly
\* when it splits into one pair and m melds, each a triplet or three
\* consecutive ranks of one numbered suit, and every decomposition the
\* enumerators report uses each tile of the multiset exactly once.
C40_DecompositionSearch ==
    /\ call.op = "_is_complete_standard_hand" =>
           (result.value <=> SplitsIntoHand(call.tiles, 4 - Len(call.melds)))
    /\ call.op = "_standard_decompositions" =>
           /\ \A d \in result.rules :
                  Reproduces(d, call.tiles \o Flatten([i \in DOMAIN call.melds |->
                                                          call.melds[i].tiles]))
           /\ \A d \in result.scoring : Reproduces(d, call.tiles)

\* The same for the lists without a red five.
PlainDecompositionSearch ==
    (call.op \in {"_is_complete_standard_hand", "_standard_decompositions"}
         /\ \A i \in DOMAIN call.tiles : ~is_red(call.tiles[i]))
        => C40_DecompositionSearch

=============================================================================
